---- MODULE Spec2Model ----
(***************************************************************************)
(* A model of jct: the JSON value engine (value model, parser,             *)
(* serializers, merge/diff kernel, atomic save) and the JSONPath filter    *)
(* evaluator.                                                              *)
(*                                                                         *)
(* Bytes are one-character strings ("a", "{"); the bytes TLA+ cannot write *)
(* as one character are the tokens "\\b" (0x08), "x01", "x1f", "x60".  A C *)
(* string is a sequence of bytes.  A JsonValue is a record [type, v]; an   *)
(* object's v is its linked list of members from object_head on, an        *)
(* array's v its list of items from array_head on.  A number's v is the    *)
(* decimal [m, e] for m * 10^e, with m not a multiple of 10 (0 is [0, 0]). *)
(***************************************************************************)
EXTENDS Integers, Sequences, FiniteSets, TLC

VARIABLES
    \* An object under add_to_object, parse and merge
    obj,         \* the JsonValue the operations work on
    order,       \* the keys in the order of their first insertion
    latest,      \* per key, the value passed to the last add_to_object
    lastOp,      \* the last operation: its name, key, the member count
                 \* before it and the number of keys it inserted first
    \* Serializers and parser
    doc,         \* the JsonValue to serialize
    twin,        \* a value equal to doc, its members in any order
    fileText,    \* what save_config's writer wrote for doc and for twin,
                 \* <<>> before
    outText,     \* what print_item printed for doc and for twin
    strText,     \* what json_to_string returned for doc and for twin
    reparsed,    \* parse_json_string of a text of doc, and the serializer
                 \* the text came from
    \* Merge and diff
    valA, valB, valC,   \* the operands
    diffAB,      \* diff_json(valA, valB)
    mergedBack,  \* merge_json_into(clone(valB), diffAB)
    mergeLeft,   \* merge(merge(valA, valB), valC)
    mergeRight,  \* merge(valA, merge(valB, valC))
    destAfter,   \* dest after merge_json_into(&dest, src), dest = valA, src = valB
    equalAB,     \* json_values_equal(valA, valB) and json_values_equal(valB, valA)
    \* save_config
    target,      \* the file at filepath
    temp,        \* the temporary file
    saved,       \* the last call: its value, the I/O fault it met, the
                 \* target before it and its result
    \* JSONPath
    pathDoc,     \* the document queried
    pathCall,    \* the expression and options of the last evaluate_jsonpath
    pathRes,     \* the JsonPathResults it returned
    heap,        \* the document nodes freed so far, whether freed memory
                 \* was used, and the values allocated and never freed
    pathStage,   \* "loaded", "evaluated", "released" (results freed) or
                 \* "freed" (document freed)
    \* Dot paths
    nestRoot,    \* the tree get_nested_item and set_nested_item work on
    nestSet,     \* the last set_nested_item: its key, its value string, its
                 \* result and the tree before it
    nestGot,     \* the last get_nested_item since then: its key and what it
                 \* returned
    \* Command line
    files,       \* the file system: per path, the kind of file and the
                 \* JsonValue its text holds
    cliRun       \* the last run of main: its arguments, the file it handed
                 \* to the handler and its exit code

objVars == <<obj, order, latest, lastOp>>

serVars == <<doc, twin, fileText, outText, strText, reparsed>>

kernelVars ==
    <<valA, valB, valC, diffAB, mergedBack, mergeLeft, mergeRight, destAfter, equalAB>>

saveVars == <<target, temp, saved>>

pathVars == <<pathDoc, pathCall, pathRes, heap, pathStage>>

nestVars == <<nestRoot, nestSet, nestGot>>

cliVars == <<files, cliRun>>

vars == <<objVars, serVars, kernelVars, saveVars, pathVars, nestVars, cliVars>>

-----------------------------------------------------------------------------
(* Bytes and C strings *)

\* The printable ASCII bytes 0x20..0x7e in byte order.
Printable ==
    << " ", "!", "\"", "#", "$", "%", "&", "'", "(", ")", "*", "+", ",", "-",
       ".", "/", "0", "1", "2", "3", "4", "5", "6", "7", "8", "9", ":", ";",
       "<", "=", ">", "?", "@", "A", "B", "C", "D", "E", "F", "G", "H", "I",
       "J", "K", "L", "M", "N", "O", "P", "Q", "R", "S", "T", "U", "V", "W",
       "X", "Y", "Z", "[", "\\", "]", "^", "_", "x60", "a", "b", "c", "d", "e",
       "f", "g", "h", "i", "j", "k", "l", "m", "n", "o", "p", "q", "r", "s",
       "t", "u", "v", "w", "x", "y", "z", "{", "|", "}", "~" >>

\* The control bytes of the model: 0x01, \b, \t, \n, \f, \r, 0x1f.
Control == {"x01", "\\b", "\t", "\n", "\f", "\r", "x1f"}

Bytes == Control \cup {Printable[i] : i \in DOMAIN Printable}

\* The numeric value of a byte (unsigned char).
OrdTable ==
    [c \in Bytes |->
        CASE c = "x01" -> 1
          [] c = "\\b" -> 8
          [] c = "\t"  -> 9
          [] c = "\n"  -> 10
          [] c = "\f"  -> 12
          [] c = "\r"  -> 13
          [] c = "x1f" -> 31
          [] OTHER     -> 31 + (CHOOSE i \in DOMAIN Printable : Printable[i] = c)]

Ord(c) == OrdTable[c]

Digits == <<"0", "1", "2", "3", "4", "5", "6", "7", "8", "9">>

isdigit(c) == c \in {Digits[i] : i \in DOMAIN Digits}

DigitVal(c) == (CHOOSE i \in DOMAIN Digits : Digits[i] = c) - 1

isalpha(c) == (Ord(c) >= 65 /\ Ord(c) <= 90) \/ (Ord(c) >= 97 /\ Ord(c) <= 122)

isalnum(c) == isalpha(c) \/ isdigit(c)

isspace(c) == c \in {" ", "\t", "\n", "\r", "\f"}

\* strcmp: the sign of the first differing byte, a shorter string first.
RECURSIVE strcmp(_, _)
strcmp(a, b) ==
    IF a = <<>> /\ b = <<>> THEN 0
    ELSE IF a = <<>> THEN -1
    ELSE IF b = <<>> THEN 1
    ELSE IF Ord(Head(a)) < Ord(Head(b)) THEN -1
    ELSE IF Ord(Head(a)) > Ord(Head(b)) THEN 1
    ELSE strcmp(Tail(a), Tail(b))

-----------------------------------------------------------------------------
(* Value model: json_config.h, json_value.c *)

\* The null pointer, where the code returns or holds NULL.
NULL == [type |-> "NULL", v |-> 0]

create_json_value(type) ==
    CASE type = "JSON_NULL"   -> [type |-> type, v |-> 0]
      [] type = "JSON_BOOL"   -> [type |-> type, v |-> FALSE]
      [] type = "JSON_NUMBER" -> [type |-> type, v |-> [m |-> 0, e |-> 0]]
      [] type = "JSON_STRING" -> [type |-> type, v |-> <<>>]
      [] type = "JSON_ARRAY"  -> [type |-> type, v |-> <<>>]
      [] type = "JSON_OBJECT" -> [type |-> type, v |-> <<>>]

JNull == create_json_value("JSON_NULL")

JBool(b) == [type |-> "JSON_BOOL", v |-> b]

\* The double m * 10^e in its normal form.
RECURSIVE Normalize(_, _)
Normalize(m, e) ==
    IF m = 0 THEN [m |-> 0, e |-> 0]
    ELSE IF m % 10 = 0 THEN Normalize(m \div 10, e + 1)
    ELSE [m |-> m, e |-> e]

\* A number value holding the double d (a normal form).
JNumber(d) == [type |-> "JSON_NUMBER", v |-> d]

\* The number value of an integer.
JInt(n) == JNumber(IF n < 0 THEN [Normalize(-n, 0) EXCEPT !.m = -@] ELSE Normalize(n, 0))

JString(s) == [type |-> "JSON_STRING", v |-> s]

JArray(items) == [type |-> "JSON_ARRAY", v |-> items]

JObject(members) == [type |-> "JSON_OBJECT", v |-> members]

JsonKeyValue(key, value) == [key |-> key, value |-> value]

\* The position of the first member whose key is `key`, 0 when there is none.
FindKey(members, key) ==
    IF \E i \in DOMAIN members : strcmp(members[i].key, key) = 0
    THEN CHOOSE i \in DOMAIN members :
            /\ strcmp(members[i].key, key) = 0
            /\ \A j \in 1..(i - 1) : strcmp(members[j].key, key) /= 0
    ELSE 0

\* A variant of add_to_object that never looks for an existing key.
add_to_object_no_replace(object, key, value) ==
    IF object = NULL \/ value = NULL \/ object.type /= "JSON_OBJECT"
    THEN [ret |-> 0, object |-> object]
    ELSE [ret |-> 1, object |-> JObject(<<JsonKeyValue(key, value)>> \o object.v)]

\* A variant of add_to_object that keeps the old value on a key match.
add_to_object_keep_old(object, key, value) ==
    IF object = NULL \/ value = NULL \/ object.type /= "JSON_OBJECT"
    THEN [ret |-> 0, object |-> object]
    ELSE IF FindKey(object.v, key) /= 0
         THEN [ret |-> 1, object |-> object]
         ELSE [ret |-> 1, object |-> JObject(<<JsonKeyValue(key, value)>> \o object.v)]

\* add_to_object: replace the value of a matching member in place, else link a
\* new member in front of object_head.
add_to_object(object, key, value) ==
    IF object = NULL \/ value = NULL \/ object.type /= "JSON_OBJECT"
    THEN [ret |-> 0, object |-> object]
    ELSE LET i == FindKey(object.v, key) IN
         IF i /= 0
         THEN [ret |-> 1,
               object |-> JObject([object.v EXCEPT ![i].value = value])]
         ELSE [ret |-> 1,
               object |-> JObject(<<JsonKeyValue(key, value)>> \o object.v)]

\* add_to_array: link the item after the last one.
add_to_array(array, value) ==
    IF array = NULL \/ value = NULL \/ array.type /= "JSON_ARRAY"
    THEN [ret |-> 0, array |-> array]
    ELSE [ret |-> 1, array |-> JArray(Append(array.v, value))]

get_array_size(array) ==
    IF array = NULL \/ array.type /= "JSON_ARRAY" THEN 0 ELSE Len(array.v)

get_array_item(array, index) ==
    IF array = NULL \/ array.type /= "JSON_ARRAY" \/ index < 0 THEN NULL
    ELSE IF index < Len(array.v) THEN array.v[index + 1] ELSE NULL

get_object_item(object, key) ==
    IF object = NULL \/ object.type /= "JSON_OBJECT" THEN NULL
    ELSE LET i == FindKey(object.v, key) IN
         IF i /= 0 THEN object.v[i].value ELSE NULL

\* Deep copy; values of the model are immutable, so the copy is the value.
clone_json_value(value) == value

-----------------------------------------------------------------------------
(* Tree kernel: json_config.c (allocation never fails in the model) *)

\* A variant of merge_object_into that never recurses into a child object.
RECURSIVE merge_object_into_replace(_, _)
merge_object_into_replace(dest_obj, src_obj) ==
    IF dest_obj = NULL \/ src_obj = NULL \/ dest_obj.type /= "JSON_OBJECT"
       \/ src_obj.type /= "JSON_OBJECT"
    THEN [ret |-> 0, dest |-> dest_obj]
    ELSE IF src_obj.v = <<>> THEN [ret |-> 1, dest |-> dest_obj]
    ELSE LET kv == Head(src_obj.v)
             added == add_to_object(dest_obj, kv.key, clone_json_value(kv.value))
         IN  merge_object_into_replace(added.object, JObject(Tail(src_obj.v)))

\* A variant of merge_object_into that stops after the first member of src_obj.
merge_object_into_first(dest_obj, src_obj) ==
    IF dest_obj = NULL \/ src_obj = NULL \/ dest_obj.type /= "JSON_OBJECT"
       \/ src_obj.type /= "JSON_OBJECT"
    THEN [ret |-> 0, dest |-> dest_obj]
    ELSE IF src_obj.v = <<>> THEN [ret |-> 1, dest |-> dest_obj]
    ELSE merge_object_into_replace(dest_obj, JObject(<<Head(src_obj.v)>>))

\* merge_object_into: the members of src_obj from object_head on; a child that
\* is an object on both sides is merged in place, any other is replaced by a
\* clone through add_to_object.
RECURSIVE merge_object_into(_, _)
merge_object_into(dest_obj, src_obj) ==
    IF dest_obj = NULL \/ src_obj = NULL \/ dest_obj.type /= "JSON_OBJECT"
       \/ src_obj.type /= "JSON_OBJECT"
    THEN [ret |-> 0, dest |-> dest_obj]
    ELSE IF src_obj.v = <<>> THEN [ret |-> 1, dest |-> dest_obj]
    ELSE LET kv == Head(src_obj.v)
             key == kv.key
             dest_child == get_object_item(dest_obj, key)
             src_child == kv.value
             rest == JObject(Tail(src_obj.v))
         IN  IF dest_child /= NULL /\ src_child /= NULL
                /\ dest_child.type = "JSON_OBJECT" /\ src_child.type = "JSON_OBJECT"
             THEN LET sub == merge_object_into(dest_child, src_child)
                      i == FindKey(dest_obj.v, key)
                  IN  IF sub.ret = 0
                      THEN [ret |-> 0,
                            dest |-> JObject([dest_obj.v EXCEPT ![i].value = sub.dest])]
                      ELSE merge_object_into(
                               JObject([dest_obj.v EXCEPT ![i].value = sub.dest]), rest)
             ELSE LET replacement == IF src_child /= NULL
                                     THEN clone_json_value(src_child)
                                     ELSE create_json_value("JSON_NULL")
                      added == add_to_object(dest_obj, key, replacement)
                  IN  IF added.ret = 0 THEN [ret |-> 0, dest |-> dest_obj]
                      ELSE merge_object_into(added.object, rest)

\* merge_json_into(&dest, src): dest is *dest_ptr before and after.
merge_json_into(dest, src) ==
    IF src = NULL THEN [ret |-> 0, dest |-> dest]
    ELSE IF dest = NULL THEN [ret |-> 1, dest |-> clone_json_value(src)]
    ELSE IF dest.type = "JSON_OBJECT" /\ src.type = "JSON_OBJECT"
         THEN merge_object_into(dest, src)
         ELSE [ret |-> 1, dest |-> clone_json_value(src)]

\* A variant of json_values_equal that does not look for the keys of b in a.
RECURSIVE json_values_equal_one_way(_, _)
json_values_equal_one_way(a, b) ==
    IF a = NULL /\ b = NULL THEN TRUE
    ELSE IF a = NULL \/ b = NULL THEN FALSE
    ELSE IF a.type /= b.type THEN FALSE
    ELSE CASE a.type = "JSON_NULL"   -> TRUE
           [] a.type \in {"JSON_BOOL", "JSON_NUMBER", "JSON_STRING"} -> a.v = b.v
           [] a.type = "JSON_ARRAY"  ->
                /\ get_array_size(a) = get_array_size(b)
                /\ \A i \in 0..(get_array_size(a) - 1) :
                      json_values_equal_one_way(get_array_item(a, i),
                                                get_array_item(b, i))
           [] a.type = "JSON_OBJECT" ->
                \A i \in DOMAIN a.v :
                    json_values_equal_one_way(a.v[i].value,
                                              get_object_item(b, a.v[i].key))

RECURSIVE json_values_equal(_, _)
json_values_equal(a, b) ==
    IF a = NULL /\ b = NULL THEN TRUE
    ELSE IF a = NULL \/ b = NULL THEN FALSE
    ELSE IF a.type /= b.type THEN FALSE
    ELSE CASE a.type = "JSON_NULL"   -> TRUE
           [] a.type = "JSON_BOOL"   -> a.v = b.v
           [] a.type = "JSON_NUMBER" -> a.v = b.v
           [] a.type = "JSON_STRING" -> strcmp(a.v, b.v) = 0
           [] a.type = "JSON_ARRAY"  ->
                /\ get_array_size(a) = get_array_size(b)
                /\ \A i \in 0..(get_array_size(a) - 1) :
                      json_values_equal(get_array_item(a, i), get_array_item(b, i))
           [] a.type = "JSON_OBJECT" ->
                /\ \A i \in DOMAIN a.v :
                      json_values_equal(a.v[i].value, get_object_item(b, a.v[i].key))
                /\ \A i \in DOMAIN b.v : get_object_item(a, b.v[i].key) /= NULL

\* A variant of the loop of diff_objects that leaves out the keys that
\* original_obj does not hold.
RECURSIVE diff_objects_loop_common(_, _, _)
diff_objects_loop_common(todo, original_obj, diff) ==
    IF todo = <<>> THEN diff
    ELSE LET kv == Head(todo)
             original_child == get_object_item(original_obj, kv.key)
             next ==
                IF original_child /= NULL /\ ~json_values_equal(kv.value, original_child)
                THEN add_to_object(diff, kv.key, clone_json_value(kv.value)).object
                ELSE diff
         IN  diff_objects_loop_common(Tail(todo), original_obj, next)

\* A variant of the loop of diff_objects that keeps the diff of two child
\* objects even when it is empty.
RECURSIVE diff_objects_loop_keep_empty(_, _, _)
diff_objects_loop_keep_empty(todo, original_obj, diff) ==
    IF todo = <<>> THEN diff
    ELSE LET kv == Head(todo)
             original_child == get_object_item(original_obj, kv.key)
             next ==
                IF original_child = NULL
                THEN add_to_object(diff, kv.key, clone_json_value(kv.value)).object
                ELSE IF kv.value.type = "JSON_OBJECT"
                        /\ original_child.type = "JSON_OBJECT"
                THEN add_to_object(diff, kv.key,
                        diff_objects_loop_keep_empty(kv.value.v, original_child,
                            create_json_value("JSON_OBJECT"))).object
                ELSE IF ~json_values_equal(kv.value, original_child)
                THEN add_to_object(diff, kv.key, clone_json_value(kv.value)).object
                ELSE diff
         IN  diff_objects_loop_keep_empty(Tail(todo), original_obj, next)

\* diff_objects: the loop over the members of modified_obj from object_head
\* on, as a recursion on the members still to visit (`todo`) and the diff
\* object built so far.
RECURSIVE diff_objects_loop(_, _, _)
diff_objects_loop(todo, original_obj, diff) ==
    IF todo = <<>> THEN diff
    ELSE LET kv == Head(todo)
             key == kv.key
             modified_child == kv.value
             original_child == IF original_obj /= NULL
                               THEN get_object_item(original_obj, key) ELSE NULL
             next ==
                IF original_child = NULL
                THEN add_to_object(diff, key, clone_json_value(modified_child)).object
                ELSE IF modified_child /= NULL /\ modified_child.type = "JSON_OBJECT"
                        /\ original_child.type = "JSON_OBJECT"
                THEN LET child_diff ==
                            diff_objects_loop(modified_child.v, original_child,
                                              create_json_value("JSON_OBJECT"))
                     IN  IF child_diff.v /= <<>>
                         THEN add_to_object(diff, key, child_diff).object
                         ELSE diff
                ELSE IF ~json_values_equal(modified_child, original_child)
                THEN add_to_object(diff, key, clone_json_value(modified_child)).object
                ELSE diff
         IN  diff_objects_loop(Tail(todo), original_obj, next)

diff_objects(modified_obj, original_obj) ==
    IF modified_obj = NULL \/ modified_obj.type /= "JSON_OBJECT" THEN NULL
    ELSE diff_objects_loop(modified_obj.v, original_obj,
                           create_json_value("JSON_OBJECT"))

diff_json(modified, original) ==
    IF modified = NULL THEN NULL
    ELSE IF original = NULL THEN clone_json_value(modified)
    ELSE IF modified.type = "JSON_OBJECT" /\ original.type = "JSON_OBJECT"
         THEN diff_objects(modified, original)
    ELSE IF json_values_equal(modified, original)
         THEN create_json_value("JSON_OBJECT")
         ELSE clone_json_value(modified)

-----------------------------------------------------------------------------
(* Serializers: json_config.c (write_json_to_file, print_item) and         *)
(* json_serialize.c (json_to_string)                                       *)

RECURSIVE Spaces(_)
Spaces(n) == IF n <= 0 THEN <<>> ELSE <<" ">> \o Spaces(n - 1)

RECURSIVE Pow10(_)
Pow10(k) == IF k <= 0 THEN 1 ELSE 10 * Pow10(k - 1)

\* The decimal digits of a natural number.
RECURSIVE NatDigits(_)
NatDigits(n) ==
    IF n < 10 THEN <<Digits[n + 1]>>
    ELSE NatDigits(n \div 10) \o <<Digits[(n % 10) + 1]>>

RECURSIVE Zeros(_)
Zeros(n) == IF n <= 0 THEN <<>> ELSE <<"0">> \o Zeros(n - 1)

Abs(n) == IF n < 0 THEN -n ELSE n

Min(i, j) == IF i < j THEN i ELSE j

\* d == (int64_t)d: the double has no fractional part.
IsIntegral(d) == d.e >= 0

\* printf("%" PRId64, (int64_t)d) for an integral d
FormatInt(d) ==
    (IF d.m < 0 THEN <<"-">> ELSE <<>>) \o NatDigits(Abs(d.m)) \o Zeros(d.e)

\* A digit string without its trailing zeros.
RECURSIVE StripZeros(_)
StripZeros(ds) ==
    IF ds /= <<>> /\ ds[Len(ds)] = "0" THEN StripZeros(SubSeq(ds, 1, Len(ds) - 1))
    ELSE ds

\* printf("%g", d): six significant digits; d.ddddde+XX when the decimal
\* exponent is below -4 or at least 6, fixed notation otherwise; trailing
\* zeros and a bare decimal point removed.
FormatG(d) ==
    IF d.m = 0 THEN <<"0">>
    ELSE
    LET sign == IF d.m < 0 THEN <<"-">> ELSE <<>>
        D == NatDigits(Abs(d.m))
        nd == Len(D)
        unit == Pow10(nd - 6)
        q0 == Abs(d.m) \div unit
        r == Abs(d.m) % unit
        up == nd > 6 /\ ((2 * r > unit) \/ (2 * r = unit /\ q0 % 2 = 1))
        carry == up /\ q0 + 1 = 1000000
        q == IF carry THEN 100000 ELSE IF up THEN q0 + 1 ELSE q0
        X == nd - 1 + d.e + (IF carry THEN 1 ELSE 0)
        S == StripZeros(NatDigits(q))
        ex == (IF X < 0 THEN <<"-">> ELSE <<"+">>)
              \o (IF Abs(X) < 10 THEN <<"0">> ELSE <<>>) \o NatDigits(Abs(X))
    IN  IF X < -4 \/ X >= 6
        THEN sign \o <<Head(S)>>
             \o (IF Len(S) > 1 THEN <<".">> \o Tail(S) ELSE <<>>)
             \o <<"e">> \o ex
        ELSE IF X >= 0
        THEN sign \o SubSeq(S \o Zeros(X + 1 - Len(S)), 1, X + 1)
             \o (IF Len(S) > X + 1 THEN <<".">> \o SubSeq(S, X + 2, Len(S)) ELSE <<>>)
        ELSE sign \o <<"0", ".">> \o Zeros(-X - 1) \o S

\* The number case of write_json_to_file, print_json_value and print_item.
FormatNumber(d) == IF IsIntegral(d) THEN FormatInt(d) ELSE FormatG(d)

\* The two-digit lower-case hexadecimal of a byte below 0x20.
Hex2(c) ==
    LET hex == Digits \o <<"a", "b", "c", "d", "e", "f">>
    IN  <<hex[(Ord(c) \div 16) + 1], hex[(Ord(c) % 16) + 1]>>

\* The string case of write_json_to_file, one byte.
WriteEscapedByte(c) ==
    CASE c = "\\"  -> <<"\\", "\\">>
      [] c = "\""  -> <<"\\", "\"">>
      [] c = "\\b" -> <<"\\", "b">>
      [] c = "\f"  -> <<"\\", "f">>
      [] c = "\n"  -> <<"\\", "n">>
      [] c = "\r"  -> <<"\\", "r">>
      [] c = "\t"  -> <<"\\", "t">>
      [] OTHER     -> IF Ord(c) < 32 THEN <<"\\", "u", "0", "0">> \o Hex2(c)
                      ELSE <<c>>

RECURSIVE WriteEscaped(_)
WriteEscaped(str) ==
    IF str = <<>> THEN <<>> ELSE WriteEscapedByte(Head(str)) \o WriteEscaped(Tail(str))

\* escape_string and print_escaped_string: the named escapes only.
EscapeByte(c) ==
    CASE c = "\""  -> <<"\\", "\"">>
      [] c = "\\"  -> <<"\\", "\\">>
      [] c = "\\b" -> <<"\\", "b">>
      [] c = "\f"  -> <<"\\", "f">>
      [] c = "\n"  -> <<"\\", "n">>
      [] c = "\r"  -> <<"\\", "r">>
      [] c = "\t"  -> <<"\\", "t">>
      [] OTHER     -> <<c>>

RECURSIVE escape_string(_)
escape_string(str) ==
    IF str = <<>> THEN <<>> ELSE EscapeByte(Head(str)) \o escape_string(Tail(str))

print_escaped_string(s) == escape_string(s)

\* compare_json_keys
compare_json_keys(kv_a, kv_b) == strcmp(kv_a.key, kv_b.key)

\* Insert one member into a list sorted by compare_json_keys.
RECURSIVE InsertSorted(_, _)
InsertSorted(kv, sorted) ==
    IF sorted = <<>> THEN <<kv>>
    ELSE IF compare_json_keys(kv, Head(sorted)) <= 0 THEN <<kv>> \o sorted
    ELSE <<Head(sorted)>> \o InsertSorted(kv, Tail(sorted))

\* A variant of qsort_keys that leaves the members in list order.
qsort_keys_unsorted(kvs) == kvs

\* qsort(kvs, count, sizeof(JsonKeyValue *), compare_json_keys)
RECURSIVE qsort_keys(_)
qsort_keys(kvs) ==
    IF kvs = <<>> THEN <<>> ELSE InsertSorted(Head(kvs), qsort_keys(Tail(kvs)))

\* write_json_to_file with every fprintf succeeding: the bytes written.
RECURSIVE write_json_to_file(_, _)
RECURSIVE WriteMembers(_, _, _)
RECURSIVE WriteItems(_, _, _)
WriteMembers(kvs, indent, first) ==
    IF kvs = <<>> THEN <<>>
    ELSE (IF first THEN <<>> ELSE <<",", "\n">>)
         \o Spaces(2 * (indent + 1))
         \o <<"\"">> \o Head(kvs).key \o <<"\"", ":", " ">>
         \o write_json_to_file(Head(kvs).value, indent + 1)
         \o WriteMembers(Tail(kvs), indent, FALSE)

WriteItems(items, indent, first) ==
    IF items = <<>> THEN <<>>
    ELSE (IF first THEN <<>> ELSE <<",", "\n">>)
         \o Spaces(2 * (indent + 1))
         \o write_json_to_file(Head(items), indent + 1)
         \o WriteItems(Tail(items), indent, FALSE)

write_json_to_file(json, indent) ==
    CASE json.type = "JSON_NULL"   -> <<"n", "u", "l", "l">>
      [] json.type = "JSON_BOOL"   ->
            IF json.v THEN <<"t", "r", "u", "e">> ELSE <<"f", "a", "l", "s", "e">>
      [] json.type = "JSON_NUMBER" -> FormatNumber(json.v)
      [] json.type = "JSON_STRING" -> <<"\"">> \o WriteEscaped(json.v) \o <<"\"">>
      [] json.type = "JSON_OBJECT" ->
            IF json.v = <<>> THEN <<"{", "}">>
            ELSE <<"{", "\n">> \o WriteMembers(qsort_keys(json.v), indent, TRUE)
                 \o <<"\n">> \o Spaces(2 * indent) \o <<"}">>
      [] json.type = "JSON_ARRAY"  ->
            IF json.v = <<>> THEN <<"[", "]">>
            ELSE <<"[", "\n">> \o WriteItems(json.v, indent, TRUE)
                 \o <<"\n">> \o Spaces(2 * indent) \o <<"]">>

\* print_json_value: the bytes printed to stdout.
RECURSIVE print_json_value(_, _)
RECURSIVE PrintMembers(_, _, _)
RECURSIVE PrintItems(_, _, _)
PrintMembers(kvs, indent, first) ==
    IF kvs = <<>> THEN <<>>
    ELSE (IF first THEN <<>> ELSE <<",", "\n">>)
         \o Spaces(2 * (indent + 1))
         \o <<"\"">> \o print_escaped_string(Head(kvs).key) \o <<"\"", ":", " ">>
         \o print_json_value(Head(kvs).value, indent + 1)
         \o PrintMembers(Tail(kvs), indent, FALSE)

PrintItems(items, indent, first) ==
    IF items = <<>> THEN <<>>
    ELSE (IF first THEN <<>> ELSE <<",", "\n">>)
         \o Spaces(2 * (indent + 1))
         \o print_json_value(Head(items), indent + 1)
         \o PrintItems(Tail(items), indent, FALSE)

print_json_value(item, indent) ==
    CASE item.type = "JSON_NULL"   -> <<"n", "u", "l", "l">>
      [] item.type = "JSON_BOOL"   ->
            IF item.v THEN <<"t", "r", "u", "e">> ELSE <<"f", "a", "l", "s", "e">>
      [] item.type = "JSON_NUMBER" -> FormatNumber(item.v)
      [] item.type = "JSON_STRING" ->
            <<"\"">> \o print_escaped_string(item.v) \o <<"\"">>
      [] item.type = "JSON_OBJECT" ->
            IF item.v = <<>> THEN <<"{", "}">>
            ELSE <<"{", "\n">> \o PrintMembers(qsort_keys(item.v), indent, TRUE)
                 \o <<"\n">> \o Spaces(2 * indent) \o <<"}">>
      [] item.type = "JSON_ARRAY"  ->
            IF item.v = <<>> THEN <<"[", "]">>
            ELSE <<"[", "\n">> \o PrintItems(item.v, indent, TRUE)
                 \o <<"\n">> \o Spaces(2 * indent) \o <<"]">>

\* print_item: a top-level number, string or boolean is printed bare.
print_item(item) ==
    CASE item.type = "JSON_NUMBER" -> FormatNumber(item.v) \o <<"\n">>
      [] item.type = "JSON_STRING" -> item.v \o <<"\n">>
      [] item.type = "JSON_BOOL"   ->
            (IF item.v THEN <<"t", "r", "u", "e">> ELSE <<"f", "a", "l", "s", "e">>)
            \o <<"\n">>
      [] OTHER -> print_json_value(item, 0) \o <<"\n">>

\* serialize_json_to_buffer: the bytes written before the terminator.  The
\* members are written in list order, from object_head on.
RECURSIVE serialize_json_to_buffer(_, _, _)
RECURSIVE SerializeMembers(_, _, _, _)
RECURSIVE SerializeItems(_, _, _, _)
SerializeMembers(kvs, pretty, level, first) ==
    IF kvs = <<>> THEN <<>>
    ELSE (IF first THEN <<>> ELSE <<",">> \o (IF pretty THEN <<" ">> ELSE <<>>))
         \o (IF pretty THEN <<"\n">> \o Spaces(2 * (level + 1)) ELSE <<>>)
         \o <<"\"">> \o escape_string(Head(kvs).key) \o <<"\"", ":">>
         \o (IF pretty THEN <<" ">> ELSE <<>>)
         \o serialize_json_to_buffer(Head(kvs).value, pretty, level + 1)
         \o SerializeMembers(Tail(kvs), pretty, level, FALSE)

SerializeItems(items, pretty, level, first) ==
    IF items = <<>> THEN <<>>
    ELSE (IF first THEN <<>> ELSE <<",">> \o (IF pretty THEN <<" ">> ELSE <<>>))
         \o (IF pretty THEN <<"\n">> \o Spaces(2 * (level + 1)) ELSE <<>>)
         \o serialize_json_to_buffer(Head(items), pretty, level + 1)
         \o SerializeItems(Tail(items), pretty, level, FALSE)

serialize_json_to_buffer(json, pretty, level) ==
    CASE json.type = "JSON_NULL"   -> <<"n", "u", "l", "l">>
      [] json.type = "JSON_BOOL"   ->
            IF json.v THEN <<"t", "r", "u", "e">> ELSE <<"f", "a", "l", "s", "e">>
      [] json.type = "JSON_NUMBER" -> FormatG(json.v)
      [] json.type = "JSON_STRING" -> <<"\"">> \o escape_string(json.v) \o <<"\"">>
      [] json.type = "JSON_ARRAY"  ->
            <<"[">> \o SerializeItems(json.v, pretty, level, TRUE)
            \o (IF pretty /\ json.v /= <<>> THEN <<"\n">> \o Spaces(2 * level) ELSE <<>>)
            \o <<"]">>
      [] json.type = "JSON_OBJECT" ->
            <<"{">> \o SerializeMembers(json.v, pretty, level, TRUE)
            \o (IF pretty /\ json.v /= <<>> THEN <<"\n">> \o Spaces(2 * level) ELSE <<>>)
            \o <<"}">>

\* json_to_string: the string returned (the values of the model stay far
\* below the sizes at which the buffer or the depth limit matter).
json_to_string(json, pretty) ==
    IF json = NULL THEN <<"n", "u", "l", "l">>
    ELSE serialize_json_to_buffer(json, pretty, 0)

-----------------------------------------------------------------------------
(* Parser: json_parse.c.  A JsonParser is the text and the cursor pos      *)
(* (0-based); every parse function returns the cursor with its result.     *)

\* json[pos]; the byte at strlen(json) is the terminating NUL.
At(json, pos) == IF pos < Len(json) THEN json[pos + 1] ELSE "\\0"

RECURSIVE skip_whitespace(_, _)
skip_whitespace(json, pos) ==
    IF pos < Len(json) /\ At(json, pos) \in {" ", "\t", "\n", "\r"}
    THEN skip_whitespace(json, pos + 1)
    ELSE pos

\* The end of the run of digits that starts at position i of s.
RECURSIVE DigitRunEnd(_, _)
DigitRunEnd(s, i) == IF isdigit(At(s, i)) THEN DigitRunEnd(s, i + 1) ELSE i

\* The value of a digit string.
RECURSIVE DigitsValue(_)
DigitsValue(ds) ==
    IF ds = <<>> THEN 0
    ELSE 10 * DigitsValue(SubSeq(ds, 1, Len(ds) - 1)) + DigitVal(ds[Len(ds)])

RECURSIVE SkipSpace(_, _)
SkipSpace(s, i) ==
    IF isspace(At(s, i)) \/ At(s, i) = "\\v" THEN SkipSpace(s, i + 1) ELSE i

\* strtod(s, &endptr) on a decimal: the longest prefix of the form
\* [ws][sign]digits[.digits][(e|E)[sign]digits]; end = 0 and value 0 when
\* there is no such prefix.
strtod(s) ==
    LET i0 == SkipSpace(s, 0)
        neg == At(s, i0) = "-"
        i1 == IF At(s, i0) \in {"-", "+"} THEN i0 + 1 ELSE i0
        i2 == DigitRunEnd(s, i1)
        hasdot == At(s, i2) = "."
        i3 == IF hasdot THEN DigitRunEnd(s, i2 + 1) ELSE i2
        intd == SubSeq(s, i1 + 1, i2)
        fracd == IF hasdot THEN SubSeq(s, i2 + 2, i3) ELSE <<>>
        any == intd /= <<>> \/ fracd /= <<>>
        iend == IF hasdot /\ any THEN i3 ELSE i2
        eneg == At(s, iend + 1) = "-"
        j1 == IF At(s, iend + 1) \in {"-", "+"} THEN iend + 2 ELSE iend + 1
        j2 == DigitRunEnd(s, j1)
        hasexp == At(s, iend) \in {"e", "E"} /\ j2 > j1
        ex == IF hasexp THEN DigitsValue(SubSeq(s, j1 + 1, j2)) ELSE 0
        mant == DigitsValue(intd \o fracd)
    IN  IF ~any THEN [value |-> [m |-> 0, e |-> 0], end |-> 0]
        ELSE [value |-> Normalize(IF neg THEN -mant ELSE mant,
                                  (IF eneg THEN -ex ELSE ex) - Len(fracd)),
              end |-> IF hasexp THEN j2 ELSE iend]

\* parse_string, first pass: the position of the closing quote, or the
\* length of the text when there is none.
RECURSIVE StringEnd(_, _, _)
StringEnd(json, temp_pos, escaped) ==
    IF temp_pos >= Len(json) THEN temp_pos
    ELSE LET c == At(json, temp_pos) IN
         IF escaped THEN StringEnd(json, temp_pos + 1, FALSE)
         ELSE IF c = "\\" THEN StringEnd(json, temp_pos + 1, TRUE)
         ELSE IF c = "\"" THEN temp_pos
         ELSE StringEnd(json, temp_pos + 1, FALSE)

\* The byte an escape sequence \c stands for.
Unescape(c) ==
    CASE c = "b" -> "\\b"
      [] c = "f" -> "\f"
      [] c = "n" -> "\n"
      [] c = "r" -> "\r"
      [] c = "t" -> "\t"
      [] OTHER   -> c

\* parse_string, second pass: the bytes copied up to the closing quote.
RECURSIVE StringCopy(_, _, _)
StringCopy(json, pos, escaped) ==
    IF pos >= Len(json) THEN <<>>
    ELSE LET c == At(json, pos) IN
         IF escaped THEN <<Unescape(c)>> \o StringCopy(json, pos + 1, FALSE)
         ELSE IF c = "\\" THEN StringCopy(json, pos + 1, TRUE)
         ELSE IF c = "\"" THEN <<>>
         ELSE <<c>> \o StringCopy(json, pos + 1, FALSE)

parse_string(json, pos) ==
    IF pos >= Len(json) \/ At(json, pos) /= "\""
    THEN [ok |-> FALSE, str |-> <<>>, pos |-> pos]
    ELSE LET temp_pos == StringEnd(json, pos + 1, FALSE) IN
         IF temp_pos >= Len(json)
         THEN [ok |-> FALSE, str |-> <<>>, pos |-> pos + 1]
         ELSE [ok |-> TRUE, str |-> StringCopy(json, pos + 1, FALSE),
               pos |-> temp_pos + 1]

\* parse_number, the scan: the end of the run of digits, signs, at most one
\* '.' and at most one 'e' or 'E'.
RECURSIVE NumberEnd(_, _, _, _)
NumberEnd(json, pos, has_decimal, has_exponent) ==
    IF pos >= Len(json) THEN pos
    ELSE LET c == At(json, pos) IN
         IF c = "."
         THEN IF has_decimal THEN pos
              ELSE NumberEnd(json, pos + 1, TRUE, has_exponent)
         ELSE IF c = "e" \/ c = "E"
         THEN IF has_exponent THEN pos
              ELSE NumberEnd(json, pos + 1, has_decimal, TRUE)
         ELSE IF isdigit(c) \/ c = "-" \/ c = "+"
         THEN NumberEnd(json, pos + 1, has_decimal, has_exponent)
         ELSE pos

parse_number(json, pos) ==
    IF pos >= Len(json) THEN [value |-> NULL, pos |-> pos]
    ELSE LET c == At(json, pos) IN
         IF ~isdigit(c) /\ c /= "-" /\ c /= "+" /\ c /= "."
         THEN [value |-> NULL, pos |-> pos]
         ELSE LET end == NumberEnd(json, pos, FALSE, FALSE)
                  num_str == SubSeq(json, pos + 1, end)
              IN  [value |-> JNumber(strtod(num_str).value), pos |-> end]

\* Whether the text holds the bytes of lit from pos + 1 on, all before len.
MatchTail(json, pos, lit) ==
    /\ pos + Len(lit) < Len(json)
    /\ \A i \in 1..Len(lit) : At(json, pos + i) = lit[i]

RECURSIVE parse_value(_, _)
RECURSIVE ParseElements(_, _, _)
RECURSIVE ParseMembers(_, _, _)

\* parse_array, the loop over the elements; array is the array built so far.
ParseElements(json, pos, array) ==
    IF pos >= Len(json) THEN [value |-> NULL, pos |-> pos]
    ELSE LET p1 == skip_whitespace(json, pos)
             item == parse_value(json, p1)
         IN  IF item.value = NULL THEN [value |-> NULL, pos |-> item.pos]
             ELSE LET added == add_to_array(array, item.value)
                      p2 == skip_whitespace(json, item.pos)
                  IN  IF added.ret = 0 THEN [value |-> NULL, pos |-> item.pos]
                      ELSE IF p2 < Len(json) /\ At(json, p2) = "]"
                      THEN [value |-> added.array, pos |-> p2 + 1]
                      ELSE IF p2 < Len(json) /\ At(json, p2) = ","
                      THEN ParseElements(json, p2 + 1, added.array)
                      ELSE [value |-> NULL, pos |-> p2]

parse_array(json, pos) ==
    IF pos >= Len(json) \/ At(json, pos) /= "["
    THEN [value |-> NULL, pos |-> pos]
    ELSE LET p1 == skip_whitespace(json, pos + 1) IN
         IF p1 < Len(json) /\ At(json, p1) = "]"
         THEN [value |-> create_json_value("JSON_ARRAY"), pos |-> p1 + 1]
         ELSE ParseElements(json, p1, create_json_value("JSON_ARRAY"))

\* parse_object, the loop over the members; object is the object built so far.
ParseMembers(json, pos, object) ==
    IF pos >= Len(json) THEN [value |-> NULL, pos |-> pos]
    ELSE LET p1 == skip_whitespace(json, pos)
             key == parse_string(json, p1)
             p2 == skip_whitespace(json, key.pos)
         IN  IF ~key.ok THEN [value |-> NULL, pos |-> key.pos]
             ELSE IF p2 >= Len(json) \/ At(json, p2) /= ":"
             THEN [value |-> NULL, pos |-> p2]
             ELSE LET p3 == skip_whitespace(json, p2 + 1)
                      item == parse_value(json, p3)
                  IN  IF item.value = NULL THEN [value |-> NULL, pos |-> item.pos]
                      ELSE LET added == add_to_object(object, key.str, item.value)
                               p4 == skip_whitespace(json, item.pos)
                           IN  IF added.ret = 0 THEN [value |-> NULL, pos |-> item.pos]
                               ELSE IF p4 < Len(json) /\ At(json, p4) = "}"
                               THEN [value |-> added.object, pos |-> p4 + 1]
                               ELSE IF p4 < Len(json) /\ At(json, p4) = ","
                               THEN ParseMembers(json, p4 + 1, added.object)
                               ELSE [value |-> NULL, pos |-> p4]

parse_object(json, pos) ==
    IF pos >= Len(json) \/ At(json, pos) /= "{"
    THEN [value |-> NULL, pos |-> pos]
    ELSE LET p1 == skip_whitespace(json, pos + 1) IN
         IF p1 < Len(json) /\ At(json, p1) = "}"
         THEN [value |-> create_json_value("JSON_OBJECT"), pos |-> p1 + 1]
         ELSE ParseMembers(json, p1, create_json_value("JSON_OBJECT"))

parse_value(json, pos) ==
    IF pos >= Len(json) THEN [value |-> NULL, pos |-> pos]
    ELSE LET p == skip_whitespace(json, pos)
             c == At(json, p)
         IN  CASE c = "{" -> parse_object(json, p)
               [] c = "[" -> parse_array(json, p)
               [] c = "\"" ->
                    LET str == parse_string(json, p) IN
                    IF ~str.ok THEN [value |-> NULL, pos |-> str.pos]
                    ELSE [value |-> JString(str.str), pos |-> str.pos]
               [] c = "t" ->
                    IF MatchTail(json, p, <<"r", "u", "e">>)
                    THEN [value |-> JBool(TRUE), pos |-> p + 4]
                    ELSE [value |-> NULL, pos |-> p]
               [] c = "f" ->
                    IF MatchTail(json, p, <<"a", "l", "s", "e">>)
                    THEN [value |-> JBool(FALSE), pos |-> p + 5]
                    ELSE [value |-> NULL, pos |-> p]
               [] c = "n" ->
                    IF MatchTail(json, p, <<"u", "l", "l">>)
                    THEN [value |-> JNull, pos |-> p + 4]
                    ELSE [value |-> NULL, pos |-> p]
               [] OTHER -> parse_number(json, p)

\* parse_json_string: NULL for the empty string; characters after the value
\* only draw a warning.
parse_json_string(json_str) ==
    IF Len(json_str) = 0 THEN NULL ELSE parse_value(json_str, 0).value

-----------------------------------------------------------------------------
(* json_config.c: dot-notation paths *)

\* A local variable of a function: the value v, computed before the body,
\* under the name that the body F gives it.
With(v, F(_)) == CHOOSE r \in {F(x) : x \in {v}} : TRUE

\* The capacity of the parts array of set_nested_item.
MaxParts == 256

\* strtok(key_copy, ".") until NULL: the non-empty runs of bytes between dots,
\* each from the first byte of the run to its last one.
strtok(s) ==
    LET first == SelectSeq([i \in 1..Len(s) |-> i],
                           LAMBDA i : s[i] /= "." /\ (i = 1 \/ s[i - 1] = "."))
        last == SelectSeq([i \in 1..Len(s) |-> i],
                          LAMBDA i : s[i] /= "." /\ (i = Len(s) \/ s[i + 1] = "."))
    IN  [k \in 1..Len(first) |-> SubSeq(s, first[k], last[k])]

\* strtol(s, &endptr, 10): value and end of [ws][sign]digits; end = 0 when
\* there are no digits.
strtol(s) ==
    LET i0 == SkipSpace(s, 0)
        neg == At(s, i0) = "-"
        i1 == IF At(s, i0) \in {"-", "+"} THEN i0 + 1 ELSE i0
        i2 == DigitRunEnd(s, i1)
        n == DigitsValue(SubSeq(s, i1 + 1, i2))
    IN  IF i2 = i1 THEN [value |-> 0, end |-> 0]
        ELSE [value |-> IF neg THEN 0 - n ELSE n, end |-> i2]

\* One turn of the loop of get_nested_item: the node that `token` names in
\* `current`.
GetNestedStep(current, token) ==
    IF current = NULL THEN NULL
    ELSE IF current.type = "JSON_OBJECT" THEN get_object_item(current, token)
    ELSE IF current.type = "JSON_ARRAY"
         THEN LET index == strtol(token) IN
              IF index.end /= Len(token) \/ index.value < 0
                 \/ index.value >= get_array_size(current)
              THEN NULL
              ELSE get_array_item(current, index.value)
    ELSE NULL

\* The loop of get_nested_item over tokens[lo..hi].  The range is walked as
\* two halves, one after the other, which keeps the evaluation shallow for a
\* key of hundreds of tokens.
RECURSIVE GetNested(_, _, _, _)
GetNested(current, tokens, lo, hi) ==
    IF current = NULL \/ lo > hi THEN current
    ELSE IF lo = hi THEN GetNestedStep(current, tokens[lo])
    ELSE GetNested(GetNested(current, tokens, lo, (lo + hi) \div 2),
                   tokens, (lo + hi) \div 2 + 1, hi)

get_nested_item(object, key) ==
    IF object = NULL THEN NULL
    ELSE With(strtok(key), LAMBDA tokens : GetNested(object, tokens, 1, Len(tokens)))

\* The value set_nested_item makes of value_str.
NewValue(value_str) ==
    IF value_str = <<"t", "r", "u", "e">> THEN JBool(TRUE)
    ELSE IF value_str = <<"f", "a", "l", "s", "e">> THEN JBool(FALSE)
    ELSE IF value_str = <<"n", "u", "l", "l">> THEN JNull
    ELSE LET num == strtod(value_str) IN
         IF num.end = Len(value_str) /\ value_str /= <<>>
         THEN JNumber(num.value)
         ELSE JString(value_str)

\* An array extended by copies of `filler` until `index` is within it.
RECURSIVE ExtendArray(_, _, _)
ExtendArray(array, index, filler) ==
    IF index >= get_array_size(array)
    THEN ExtendArray(add_to_array(array, filler).array, index, filler)
    ELSE array

\* An array with the item at `index` replaced.
ReplaceItem(array, index, value) ==
    [array EXCEPT !.v = [array.v EXCEPT ![index + 1] = value]]

\* An object with the value of the member `key` replaced, in its position.
ReplaceMember(object, key, value) ==
    [object EXCEPT !.v = [object.v EXCEPT ![FindKey(object.v, key)].value = value]]

\* The walk of set_nested_item towards the parent of the last part is a
\* record [ret, current, holders]: ret is 0 once the function has returned 0,
\* current is the node the walk stands on, and holders are the nodes it went
\* through, each as the walk left it (a missing member added, an array
\* extended).

\* One turn of the for loop of set_nested_item, for the part `part`.
SetNestedStep(walk, part) ==
    IF walk.ret = 0 THEN walk
    ELSE IF walk.current.type = "JSON_OBJECT"
         THEN LET found == get_object_item(walk.current, part)
                  holder == IF found = NULL
                            THEN add_to_object(walk.current, part,
                                               create_json_value("JSON_OBJECT")).object
                            ELSE walk.current
              IN  [ret |-> 1, current |-> get_object_item(holder, part),
                   holders |-> Append(walk.holders, holder)]
    ELSE IF walk.current.type = "JSON_ARRAY"
         THEN LET index == strtol(part) IN
              IF index.end /= Len(part) \/ index.value < 0
              THEN [walk EXCEPT !.ret = 0]
              ELSE LET holder == ExtendArray(walk.current, index.value,
                                             create_json_value("JSON_OBJECT"))
                   IN  [ret |-> 1, current |-> get_array_item(holder, index.value),
                        holders |-> Append(walk.holders, holder)]
    ELSE [walk EXCEPT !.ret = 0]

\* The for loop of set_nested_item over parts[lo..hi], walked as two halves
\* one after the other.
RECURSIVE SetNestedWalk(_, _, _, _)
SetNestedWalk(walk, parts, lo, hi) ==
    IF walk.ret = 0 \/ lo > hi THEN walk
    ELSE IF lo = hi THEN SetNestedStep(walk, parts[lo])
    ELSE SetNestedWalk(SetNestedWalk(walk, parts, lo, (lo + hi) \div 2),
                       parts, (lo + hi) \div 2 + 1, hi)

\* The end of set_nested_item with the array extended by one item before
\* the index is examined.
SetNestedLast_extend_first(current, last_key, new_value) ==
    IF current.type = "JSON_OBJECT"
    THEN LET added == add_to_object(current, last_key, new_value) IN
         [ret |-> added.ret, object |-> added.object]
    ELSE IF current.type = "JSON_ARRAY"
    THEN LET index == strtol(last_key) IN
         IF index.end /= Len(last_key) \/ index.value < 0
         THEN [ret |-> 0, object |-> add_to_array(current, JNull).array]
         ELSE [ret |-> 1,
               object |-> ReplaceItem(ExtendArray(current, index.value, JNull),
                                      index.value, new_value)]
    ELSE [ret |-> 0, object |-> current]

\* The end of set_nested_item: new_value added to or put in the place of the
\* item last_key of the parent `current`.
SetNestedLast(current, last_key, new_value) ==
    IF current.type = "JSON_OBJECT"
    THEN LET added == add_to_object(current, last_key, new_value) IN
         [ret |-> added.ret, object |-> added.object]
    ELSE IF current.type = "JSON_ARRAY"
    THEN LET index == strtol(last_key) IN
         IF index.end /= Len(last_key) \/ index.value < 0
         THEN [ret |-> 0, object |-> current]
         ELSE [ret |-> 1,
               object |-> ReplaceItem(ExtendArray(current, index.value, JNull),
                                      index.value, new_value)]
    ELSE [ret |-> 0, object |-> current]

\* The holder with `node` as the item that `part` names in it.
Held(holder, part, node) ==
    IF holder.type = "JSON_OBJECT" THEN ReplaceMember(holder, part, node)
    ELSE ReplaceItem(holder, strtol(part).value, node)

\* The tree after the walk: holders[lo..hi], each holding the next one, and
\* the last of them holding `node`.  The function writes through pointers
\* into the tree; here the nodes it wrote to are put back into their holders.
RECURSIVE SetNestedTree(_, _, _, _, _)
SetNestedTree(holders, parts, lo, hi, node) ==
    IF node = NULL \/ lo > hi THEN node
    ELSE IF lo = hi THEN Held(holders[lo], parts[lo], node)
    ELSE SetNestedTree(holders, parts, lo, (lo + hi) \div 2,
                       SetNestedTree(holders, parts, (lo + hi) \div 2 + 1, hi, node))

\* set_nested_item from the parts on.
SetNested(object, parts, new_value) ==
    With(SetNestedWalk([ret |-> 1, current |-> object, holders |-> <<>>],
                       parts, 1, Len(parts) - 1),
         LAMBDA walk :
            With(IF walk.ret = 0 THEN [ret |-> 0, object |-> walk.current]
                 ELSE SetNestedLast(walk.current, parts[Len(parts)], new_value),
                 LAMBDA last :
                    [ret |-> last.ret,
                     object |-> SetNestedTree(walk.holders, parts, 1,
                                              Len(walk.holders), last.object)]))

set_nested_item(object, key, value_str) ==
    LET tokens == strtok(key)
        parts == SubSeq(tokens, 1, IF Len(tokens) < MaxParts THEN Len(tokens)
                                   ELSE MaxParts)
    IN  IF object = NULL \/ parts = <<>> THEN [ret |-> 0, object |-> object]
        ELSE SetNested(object, parts, NewValue(value_str))

-----------------------------------------------------------------------------
(* jsonpath.c: the scanner *)
(*                                                                         *)
(* A reference to a JsonValue is a record [kind, addr, value]: a node of   *)
(* the document (kind "doc"; addr is its address, the positions of the     *)
(* children on the way from the root), a value the evaluator allocated     *)
(* (kind "own") or NULL (kind "null").  The memory state h records the     *)
(* addresses of the document nodes passed to free_json_value, whether      *)
(* freed memory was read or freed again, and the number of values the      *)
(* evaluator allocated and has not freed.                                  *)

NullRef == [kind |-> "null", addr |-> <<>>, value |-> NULL]

DocRef(addr, value) == [kind |-> "doc", addr |-> addr, value |-> value]

OwnRef(value) == [kind |-> "own", addr |-> <<>>, value |-> value]

NewHeap == [freed |-> {}, uaf |-> FALSE, leaked |-> 0]

IsPrefix(p, q) == Len(p) <= Len(q) /\ SubSeq(q, 1, Len(p)) = p

\* A read of the node behind a reference: undefined once the node, or a
\* node that held it, was freed.
Touch(h, ref) ==
    IF ref.kind = "doc" /\ \E f \in h.freed : IsPrefix(f, ref.addr)
    THEN [h EXCEPT !.uaf = TRUE]
    ELSE h

\* A read of the node and of everything below it, as a deep copy does it.
TouchTree(h, ref) ==
    IF ref.kind = "doc"
       /\ \E f \in h.freed : IsPrefix(f, ref.addr) \/ IsPrefix(ref.addr, f)
    THEN [h EXCEPT !.uaf = TRUE]
    ELSE h

\* The evaluator allocates a value.
Alloc(h) == [h EXCEPT !.leaked = @ + 1]

\* free_json_value(ref) for a reference that is not NULL: the node and all
\* below it are freed; freeing freed memory is undefined.
Free(h, ref) ==
    IF ref.kind = "own" THEN [h EXCEPT !.leaked = @ - 1]
    ELSE IF \E f \in h.freed : IsPrefix(f, ref.addr) \/ IsPrefix(ref.addr, f)
    THEN [h EXCEPT !.uaf = TRUE]
    ELSE [h EXCEPT !.freed = @ \cup {ref.addr}]

\* get_object_item and get_array_item on a reference.
MemberRef(ref, name) ==
    LET i == FindKey(ref.value.v, name) IN
    IF i = 0 THEN NullRef
    ELSE [kind |-> ref.kind, addr |-> Append(ref.addr, i),
          value |-> ref.value.v[i].value]

ItemRef(ref, idx) ==
    IF idx < 0 \/ idx >= Len(ref.value.v) THEN NullRef
    ELSE [kind |-> ref.kind, addr |-> Append(ref.addr, idx + 1),
          value |-> ref.value.v[idx + 1]]

IsType(ref, type) == ref.kind /= "null" /\ ref.value.type = type

\* The scanner is the expression s and the position pos in it.
peek(s, pos) == At(s, pos)

RECURSIVE skip_ws(_, _)
skip_ws(s, pos) ==
    IF pos < Len(s) /\ isspace(s[pos + 1]) THEN skip_ws(s, pos + 1) ELSE pos

match(s, pos, lit) ==
    pos + Len(lit) <= Len(s) /\ SubSeq(s, pos + 1, pos + Len(lit)) = lit

\* path_append_prop and path_append_index
path_append_prop(base, name) ==
    IF name /= <<>> /\ (isalpha(name[1]) \/ name[1] = "_")
    THEN base \o <<".">> \o name
    ELSE base \o <<"[", "'">> \o name \o <<"'", "]">>

path_append_index(base, idx) ==
    base \o <<"[">> \o (IF idx < 0 THEN <<"-">> ELSE <<>>) \o NatDigits(Abs(idx))
    \o <<"]">>

NodeRef(val, path) == [val |-> val, path |-> path]

\* The children of a node as candidates, with their paths.
ChildNodes(node) ==
    IF IsType(node.val, "JSON_OBJECT")
    THEN [i \in DOMAIN node.val.value.v |->
            NodeRef(MemberRef(node.val, node.val.value.v[i].key),
                    path_append_prop(node.path, node.val.value.v[i].key))]
    ELSE IF IsType(node.val, "JSON_ARRAY")
    THEN [i \in DOMAIN node.val.value.v |->
            NodeRef(ItemRef(node.val, i - 1), path_append_index(node.path, i - 1))]
    ELSE <<>>

\* The concatenation of a sequence of sequences.
RECURSIVE Flatten(_)
Flatten(seqs) == IF seqs = <<>> THEN <<>> ELSE Head(seqs) \o Flatten(Tail(seqs))

\* collect_descendants: each child, followed by its own descendants.
RECURSIVE collect_descendants(_)
collect_descendants(node) ==
    LET children == ChildNodes(node) IN
    Flatten([i \in DOMAIN children |->
                <<children[i]>> \o collect_descendants(children[i])])

\* parse_identifier: a letter or underscore, then letters, digits and
\* underscores.
RECURSIVE IdentifierEnd(_, _)
IdentifierEnd(s, pos) ==
    IF pos < Len(s) /\ (isalnum(s[pos + 1]) \/ s[pos + 1] = "_")
    THEN IdentifierEnd(s, pos + 1)
    ELSE pos

parse_identifier(s, pos) ==
    IF ~(pos < Len(s) /\ (isalpha(s[pos + 1]) \/ s[pos + 1] = "_"))
    THEN [ok |-> FALSE, name |-> <<>>, pos |-> pos]
    ELSE [ok |-> TRUE, name |-> SubSeq(s, pos + 1, IdentifierEnd(s, pos)),
          pos |-> IdentifierEnd(s, pos)]

\* parse_quoted: the bytes up to the closing quote, a backslash taking the
\* next byte as it is.  The string builder has no buffer before the first
\* byte, so the empty string comes back as NULL (ok = FALSE).
RECURSIVE QuotedLoop(_, _, _, _)
QuotedLoop(s, pos, quote, b) ==
    IF pos >= Len(s) THEN [str |-> b, pos |-> pos]
    ELSE IF s[pos + 1] = quote THEN [str |-> b, pos |-> pos + 1]
    ELSE IF s[pos + 1] = "\\"
         THEN IF pos + 1 >= Len(s) THEN [str |-> b, pos |-> pos + 1]
              ELSE QuotedLoop(s, pos + 2, quote, Append(b, s[pos + 2]))
    ELSE QuotedLoop(s, pos + 1, quote, Append(b, s[pos + 1]))

parse_quoted(s, pos) ==
    IF peek(s, pos) \notin {"'", "\""}
    THEN [ok |-> FALSE, str |-> <<>>, pos |-> IF pos < Len(s) THEN pos + 1 ELSE pos]
    ELSE LET q == QuotedLoop(s, pos + 1, peek(s, pos), <<>>) IN
         [ok |-> q.str /= <<>>, str |-> q.str, pos |-> q.pos]

\* The value at which parse_int stops counting.
IntMax == 2147483647

\* parse_int: an optional minus and digits.
RECURSIVE IntLoop(_, _, _)
IntLoop(s, pos, v) ==
    IF ~isdigit(peek(s, pos)) THEN [value |-> v, pos |-> pos]
    ELSE LET d == DigitVal(peek(s, pos)) IN
         IntLoop(s, pos + 1,
                 IF v > IntMax \div 10 \/ (v = IntMax \div 10 /\ d > IntMax % 10)
                 THEN IntMax ELSE v * 10 + d)

parse_int(s, pos) ==
    LET neg == peek(s, pos) = "-"
        p == IF neg THEN pos + 1 ELSE pos
        n == IntLoop(s, p, 0)
    IN  IF ~isdigit(peek(s, p)) THEN [ok |-> FALSE, value |-> 0, pos |-> p]
        ELSE [ok |-> TRUE, value |-> IF neg THEN 0 - n.value ELSE n.value,
              pos |-> n.pos]

-----------------------------------------------------------------------------
(* jsonpath.c: filter expressions *)

\* parse_literal: true, false, null, a quoted string or a number (an exact
\* decimal in the model); NULL, the position restored, for anything else.
parse_literal(s, pos0, h) ==
    LET pos == skip_ws(s, pos0)
        neg == peek(s, pos) = "-"
        i1 == IF neg THEN pos + 1 ELSE pos
        i2 == DigitRunEnd(s, i1)
        hasdot == peek(s, i2) = "."
        i3 == IF hasdot THEN DigitRunEnd(s, i2 + 1) ELSE i2
        digits == SubSeq(s, i1 + 1, i2) \o (IF hasdot THEN SubSeq(s, i2 + 2, i3) ELSE <<>>)
        val == DigitsValue(digits)
        quoted == parse_quoted(s, pos)
    IN  IF match(s, pos, <<"t", "r", "u", "e">>)
        THEN [ref |-> OwnRef(JBool(TRUE)), pos |-> pos + 4, h |-> Alloc(h)]
        ELSE IF match(s, pos, <<"f", "a", "l", "s", "e">>)
        THEN [ref |-> OwnRef(JBool(FALSE)), pos |-> pos + 5, h |-> Alloc(h)]
        ELSE IF match(s, pos, <<"n", "u", "l", "l">>)
        THEN [ref |-> OwnRef(JNull), pos |-> pos + 4, h |-> Alloc(h)]
        ELSE IF peek(s, pos) \in {"'", "\""}
        THEN IF quoted.ok
             THEN [ref |-> OwnRef(JString(quoted.str)), pos |-> quoted.pos,
                   h |-> Alloc(h)]
             ELSE [ref |-> NullRef, pos |-> quoted.pos, h |-> h]
        ELSE IF isdigit(peek(s, i1))
        THEN [ref |-> OwnRef(JNumber(Normalize(IF neg THEN 0 - val ELSE val,
                                               IF hasdot THEN i2 + 1 - i3 ELSE 0))),
              pos |-> IF hasdot THEN i3 ELSE i2, h |-> Alloc(h)]
        ELSE [ref |-> NullRef, pos |-> pos, h |-> h]

\* The loop of eval_path_from_at: `returned` when the function returned cur
\* from within the loop.
RECURSIVE PathFromAt(_, _, _, _)
PathFromAt(s, pos, cur, h) ==
    IF match(s, pos, <<".">>)
    THEN IF match(s, pos + 1, <<".">>)
         THEN [ref |-> cur, pos |-> pos + 2, h |-> h, returned |-> FALSE]
         ELSE LET id == parse_identifier(s, pos + 1) IN
              IF ~id.ok
              THEN [ref |-> cur, pos |-> id.pos, h |-> h, returned |-> TRUE]
              ELSE PathFromAt(s, id.pos,
                              IF IsType(cur, "JSON_OBJECT")
                              THEN MemberRef(cur, id.name) ELSE NullRef,
                              Touch(h, cur))
    ELSE IF match(s, pos, <<"[">>)
    THEN IF peek(s, pos + 1) \in {"'", "\""}
         THEN LET q == parse_quoted(s, pos + 1)
                  close == skip_ws(s, q.pos)
              IN  IF ~q.ok
                  THEN [ref |-> cur, pos |-> q.pos, h |-> h, returned |-> TRUE]
                  ELSE IF ~match(s, close, <<"]">>)
                  THEN [ref |-> cur, pos |-> close, h |-> h, returned |-> TRUE]
                  ELSE PathFromAt(s, close + 1,
                                  IF IsType(cur, "JSON_OBJECT")
                                  THEN MemberRef(cur, q.str) ELSE NullRef,
                                  Touch(h, cur))
         ELSE LET idx == parse_int(s, pos + 1)
                  close == skip_ws(s, idx.pos)
              IN  IF ~idx.ok
                  THEN [ref |-> cur, pos |-> idx.pos, h |-> h, returned |-> TRUE]
                  ELSE IF ~match(s, close, <<"]">>)
                  THEN [ref |-> cur, pos |-> close, h |-> h, returned |-> TRUE]
                  ELSE PathFromAt(s, close + 1,
                                  IF IsType(cur, "JSON_ARRAY")
                                  THEN ItemRef(cur, idx.value) ELSE NullRef,
                                  Touch(h, cur))
    ELSE [ref |-> cur, pos |-> pos, h |-> h, returned |-> FALSE]

\* eval_path_from_at: the node the path after @ leads to from ctx, itself a
\* node of the document; a null value allocated here when it leads nowhere.
eval_path_from_at(s, pos, ctx, h) ==
    With(PathFromAt(s, skip_ws(s, pos), ctx, h), LAMBDA found :
         IF ~found.returned /\ found.ref.kind = "null"
         THEN [ref |-> OwnRef(JNull), pos |-> found.pos, h |-> Alloc(found.h)]
         ELSE [ref |-> found.ref, pos |-> found.pos, h |-> found.h])

\* numcmp on two decimals.
numcmp(x, y) ==
    LET low == Min(x.e, y.e)
        xs == x.m * Pow10(x.e - low)
        ys == y.m * Pow10(y.e - low)
    IN  IF xs < ys THEN -1 ELSE IF xs > ys THEN 1 ELSE 0

\* The verdict of an operator on the sign of a comparison.
OpHolds(op, c) ==
    CASE op = <<"=", "=">> -> c = 0
      [] op = <<"!", "=">> -> c /= 0
      [] op = <<">">>      -> c > 0
      [] op = <<">", "=">> -> c >= 0
      [] op = <<"<">>      -> c < 0
      [] op = <<"<", "=">> -> c <= 0

\* cmp_values with != true for any two operands of different kinds.
cmp_values_unequal_kinds(a, b, op) ==
    IF a.type = "JSON_NUMBER" /\ b.type = "JSON_NUMBER"
    THEN OpHolds(op, numcmp(a.v, b.v))
    ELSE IF a.type = "JSON_STRING" /\ b.type = "JSON_STRING"
    THEN OpHolds(op, strcmp(a.v, b.v))
    ELSE IF a.type = "JSON_BOOL" /\ b.type = "JSON_BOOL"
    THEN OpHolds(op, (IF a.v THEN 1 ELSE 0) - (IF b.v THEN 1 ELSE 0))
    ELSE IF op = <<"=", "=">> THEN a.type = "JSON_NULL" /\ b.type = "JSON_NULL"
    ELSE op = <<"!", "=">> /\ a.type /= b.type

cmp_values(a, b, op) ==
    IF a.type = "JSON_NUMBER" /\ b.type = "JSON_NUMBER"
    THEN OpHolds(op, numcmp(a.v, b.v))
    ELSE IF a.type = "JSON_STRING" /\ b.type = "JSON_STRING"
    THEN OpHolds(op, strcmp(a.v, b.v))
    ELSE IF a.type = "JSON_BOOL" /\ b.type = "JSON_BOOL"
    THEN OpHolds(op, (IF a.v THEN 1 ELSE 0) - (IF b.v THEN 1 ELSE 0))
    ELSE IF a.type = "JSON_NULL" \/ b.type = "JSON_NULL"
    THEN IF op = <<"=", "=">> THEN a.type = b.type
         ELSE IF op = <<"!", "=">> THEN a.type /= b.type
         ELSE FALSE
    ELSE FALSE

\* The operators of eval_cmp in the order it tries them.
CmpOps == << <<"=", "=">>, <<"!", "=">>, <<">", "=">>, <<"<", "=">>, <<">">>, <<"<">> >>

\* eval_cmp: an operand, then an operator and a second operand, or the
\* truthiness of the only operand, which is then passed to free_json_value
\* whatever it points to.
eval_cmp(s, pos0, ctx, h0) ==
    LET pos == skip_ws(s, pos0)
        lhs_is_path == peek(s, pos) = "@"
    IN
    With(IF lhs_is_path THEN eval_path_from_at(s, pos + 1, ctx, h0)
         ELSE parse_literal(s, pos, h0), LAMBDA lhs :
    LET p1 == skip_ws(s, lhs.pos)
        ops == {i \in DOMAIN CmpOps : match(s, p1, CmpOps[i])}
    IN  IF ops = {}
        THEN IF lhs.ref.kind = "null"
             THEN [res |-> FALSE, pos |-> p1, h |-> lhs.h]
             ELSE [res |-> IF lhs.ref.value.type = "JSON_BOOL" THEN lhs.ref.value.v
                           ELSE lhs.ref.value.type /= "JSON_NULL",
                   pos |-> p1,
                   h |-> Free(Touch(lhs.h, lhs.ref), lhs.ref)]
        ELSE LET op == CmpOps[CHOOSE i \in ops : \A j \in ops : i <= j]
                 p2 == skip_ws(s, p1 + Len(op))
                 rhs_is_path == peek(s, p2) = "@"
             IN
             With(IF rhs_is_path THEN eval_path_from_at(s, p2 + 1, ctx, lhs.h)
                  ELSE parse_literal(s, p2, lhs.h), LAMBDA rhs :
             LET both == lhs.ref.kind /= "null" /\ rhs.ref.kind /= "null"
                 h1 == IF both THEN Touch(Touch(rhs.h, lhs.ref), rhs.ref) ELSE rhs.h
                 h2 == IF lhs.ref.kind /= "null" /\ ~lhs_is_path
                       THEN Free(h1, lhs.ref) ELSE h1
                 h3 == IF rhs.ref.kind /= "null" /\ ~rhs_is_path
                       THEN Free(h2, rhs.ref) ELSE h2
             IN  [res |-> both /\ cmp_values(lhs.ref.value, rhs.ref.value, op),
                  pos |-> rhs.pos, h |-> h3]))

RECURSIVE eval_unary(_, _, _, _)
eval_unary(s, pos0, ctx, h) ==
    LET pos == skip_ws(s, pos0) IN
    IF match(s, pos, <<"!">>)
    THEN With(eval_unary(s, pos + 1, ctx, h), LAMBDA r :
              [res |-> ~r.res, pos |-> r.pos, h |-> r.h])
    ELSE eval_cmp(s, pos, ctx, h)

\* The loop of eval_and from the position pos on, v the value so far.
RECURSIVE AndLoop(_, _, _, _, _)
AndLoop(s, pos, ctx, h, v) ==
    IF match(s, pos, <<"&", "&">>)
    THEN With(eval_unary(s, pos + 2, ctx, h), LAMBDA r :
              AndLoop(s, skip_ws(s, r.pos), ctx, r.h, v /\ r.res))
    ELSE [res |-> v, pos |-> pos, h |-> h]

eval_and(s, pos, ctx, h) ==
    With(eval_unary(s, pos, ctx, h), LAMBDA v :
         AndLoop(s, skip_ws(s, v.pos), ctx, v.h, v.res))

RECURSIVE OrLoop(_, _, _, _, _)
OrLoop(s, pos, ctx, h, v) ==
    IF match(s, pos, <<"|", "|">>)
    THEN With(eval_and(s, pos + 2, ctx, h), LAMBDA r :
              OrLoop(s, skip_ws(s, r.pos), ctx, r.h, v \/ r.res))
    ELSE [res |-> v, pos |-> pos, h |-> h]

eval_or(s, pos, ctx, h) ==
    With(eval_and(s, pos, ctx, h), LAMBDA v :
         OrLoop(s, skip_ws(s, v.pos), ctx, v.h, v.res))

eval_filter_expr(s, pos, ctx, h) == eval_or(s, pos, ctx, h)

-----------------------------------------------------------------------------
(* jsonpath.c: selectors and evaluate_jsonpath *)

\* The reads of the nodes a step goes through.
RECURSIVE TouchNodes(_, _)
TouchNodes(h, nodes) ==
    IF nodes = <<>> THEN h ELSE TouchNodes(Touch(h, Head(nodes).val), Tail(nodes))

apply_child_name(cur, name) ==
    Flatten([i \in DOMAIN cur |->
                IF IsType(cur[i].val, "JSON_OBJECT")
                   /\ MemberRef(cur[i].val, name).kind /= "null"
                THEN <<NodeRef(MemberRef(cur[i].val, name),
                               path_append_prop(cur[i].path, name))>>
                ELSE <<>>])

apply_wildcard(cur) == Flatten([i \in DOMAIN cur |-> ChildNodes(cur[i])])

\* The nodes a filter is evaluated on: the items of a node that is an array,
\* any other node itself; each with the node read to get at it.
FilterCandidates(cur) ==
    Flatten([i \in DOMAIN cur |->
                IF IsType(cur[i].val, "JSON_ARRAY")
                THEN LET items == ChildNodes(cur[i]) IN
                     [j \in DOMAIN items |-> [node |-> items[j], holder |-> cur[i].val]]
                ELSE <<[node |-> cur[i], holder |-> cur[i].val]>>])

\* The loop of the filter over the candidates still to visit.
RECURSIVE FilterLoop(_, _, _, _, _)
FilterLoop(s, expr_start, todo, h, next) ==
    IF todo = <<>> THEN [next |-> next, h |-> h]
    ELSE With(eval_filter_expr(s, expr_start, Head(todo).node.val,
                                Touch(h, Head(todo).holder)), LAMBDA r :
              FilterLoop(s, expr_start, Tail(todo), r.h,
                         IF r.res THEN Append(next, Head(todo).node) ELSE next))

\* The quoted names of a union ['a','b'].
RECURSIVE NamesLoop(_, _, _)
NamesLoop(s, pos, names) ==
    LET q == parse_quoted(s, pos)
        close == skip_ws(s, q.pos)
    IN  IF ~q.ok THEN [ok |-> FALSE, names |-> names, pos |-> q.pos]
        ELSE IF match(s, close, <<",">>)
        THEN NamesLoop(s, close + 1, Append(names, q.str))
        ELSE [ok |-> match(s, close, <<"]">>), names |-> Append(names, q.str),
              pos |-> close + 1]

\* The indices of a union [0,2].
RECURSIVE IndexLoop(_, _, _)
IndexLoop(s, pos, idxs) ==
    IF match(s, pos, <<",">>)
    THEN LET v == parse_int(s, pos + 1) IN
         IF ~v.ok THEN [ok |-> FALSE, idxs |-> idxs, pos |-> v.pos]
         ELSE IndexLoop(s, skip_ws(s, v.pos), Append(idxs, v.value))
    ELSE [ok |-> match(s, pos, <<"]">>), idxs |-> idxs, pos |-> pos + 1]

\* The indices idx = from; idx < to; idx += step.
RECURSIVE SliceIndices(_, _, _)
SliceIndices(from, to, step) ==
    IF from < to THEN <<from>> \o SliceIndices(from + step, to, step) ELSE <<>>

\* The items of the arrays among cur at the given indices, where they exist.
ItemsAt(cur, indices) ==
    Flatten([i \in DOMAIN cur |->
                IF IsType(cur[i].val, "JSON_ARRAY")
                THEN LET picked == indices[i] IN
                     Flatten([k \in DOMAIN picked |->
                                 IF ItemRef(cur[i].val, picked[k]).kind /= "null"
                                 THEN <<NodeRef(ItemRef(cur[i].val, picked[k]),
                                                path_append_index(cur[i].path, picked[k]))>>
                                 ELSE <<>>])
                ELSE <<>>])

\* apply_array_subscript, after the opening bracket: [*], a filter
\* [?(expr)], a union of names, a slice or a union of indices.
apply_array_subscript(cur, s, pos0, h, strict) ==
    LET pos == skip_ws(s, pos0)
        fail == [ok |-> FALSE, next |-> <<>>, pos |-> pos, h |-> h]
        anyArray == \E i \in DOMAIN cur : IsType(cur[i].val, "JSON_ARRAY")
    IN
    IF match(s, pos, <<"*">>)
    THEN LET close == skip_ws(s, pos + 1) IN
         IF ~match(s, close, <<"]">>) THEN fail
         ELSE [ok |-> TRUE, next |-> apply_wildcard(cur), pos |-> close + 1,
               h |-> TouchNodes(h, cur)]
    ELSE IF match(s, pos, <<"?">>)
    THEN IF ~match(s, pos + 1, <<"(">>) THEN fail
         ELSE With(eval_filter_expr(s, pos + 2, NullRef, h), LAMBDA scratch :
              With(FilterLoop(s, pos + 2, FilterCandidates(cur), scratch.h, <<>>),
                   LAMBDA loop :
              LET p1 == skip_ws(s, scratch.pos)
                  p2 == skip_ws(s, p1 + 1)
              IN  IF ~match(s, p1, <<")">>) \/ ~match(s, p2, <<"]">>)
                  THEN [fail EXCEPT !.h = loop.h]
                  ELSE [ok |-> TRUE, next |-> loop.next, pos |-> p2 + 1,
                        h |-> loop.h]))
    ELSE IF peek(s, pos) \in {"'", "\""}
    THEN LET union == NamesLoop(s, pos, <<>>) IN
         IF ~union.ok THEN fail
         ELSE [ok |-> TRUE,
               next |-> Flatten([i \in DOMAIN cur |->
                           Flatten([k \in DOMAIN union.names |->
                                       apply_child_name(<<cur[i]>>, union.names[k])])]),
               pos |-> union.pos, h |-> TouchNodes(h, cur)]
    ELSE LET start == parse_int(s, pos)
             p == skip_ws(s, start.pos)
         IN
         IF ~start.ok THEN fail
         ELSE IF match(s, p, <<":">>)
         THEN LET open == peek(s, p + 1) /= "]"
                  endr == IF open /\ peek(s, p + 1) /= ":" THEN parse_int(s, p + 1)
                          ELSE [ok |-> FALSE, value |-> 0, pos |-> p + 1]
                  has_end == endr.ok
                  stepr == IF open /\ match(s, endr.pos, <<":">>)
                           THEN parse_int(s, endr.pos + 1)
                           ELSE [ok |-> FALSE, value |-> 1, pos |-> endr.pos]
                  step == IF stepr.ok /\ stepr.value > 0 THEN stepr.value ELSE 1
                  close == skip_ws(s, stepr.pos)
                  negative == start.value < 0 \/ (has_end /\ endr.value < 0)
              IN  IF ~match(s, close, <<"]">>) THEN fail
                  ELSE IF negative /\ anyArray /\ strict
                  THEN [fail EXCEPT !.h = TouchNodes(h, cur)]
                  ELSE [ok |-> TRUE,
                        next |-> IF negative THEN <<>>
                                 ELSE ItemsAt(cur,
                                        [i \in DOMAIN cur |->
                                           SliceIndices(start.value,
                                              IF has_end
                                              THEN Min(endr.value, Len(cur[i].val.value.v))
                                              ELSE Len(cur[i].val.value.v),
                                              step)]),
                        pos |-> close + 1, h |-> TouchNodes(h, cur)]
         ELSE LET union == IndexLoop(s, p, <<start.value>>)
                  negative == \E k \in DOMAIN union.idxs : union.idxs[k] < 0
              IN  IF ~union.ok THEN fail
                  ELSE IF negative /\ anyArray /\ strict
                  THEN [fail EXCEPT !.h = TouchNodes(h, cur)]
                  ELSE [ok |-> TRUE,
                        next |-> ItemsAt(cur, [i \in DOMAIN cur |-> union.idxs]),
                        pos |-> union.pos, h |-> TouchNodes(h, cur)]

\* The descendants of all the nodes of cur, as a recursive descent collects
\* them.
Descendants(cur) == Flatten([i \in DOMAIN cur |-> collect_descendants(cur[i])])

\* The loop of eval_steps over the steps of the expression.
RECURSIVE StepsLoop(_, _, _, _, _)
StepsLoop(s, pos0, cur, h, strict) ==
    LET pos == skip_ws(s, pos0)
        fail == [ok |-> FALSE, nodes |-> <<>>, h |-> h]
    IN
    IF pos0 >= Len(s) THEN [ok |-> TRUE, nodes |-> cur, h |-> h]
    ELSE IF match(s, pos, <<".", ".">>)
    THEN IF match(s, pos + 2, <<"*">>)
         THEN With(Descendants(cur), LAMBDA desc :
                   StepsLoop(s, pos + 3, apply_wildcard(desc), TouchNodes(h, desc),
                             strict))
         ELSE IF peek(s, pos + 2) = "["
         THEN With(apply_array_subscript(Descendants(cur), s, pos + 3,
                                         TouchNodes(h, cur), strict), LAMBDA sub :
                   IF ~sub.ok THEN [fail EXCEPT !.h = sub.h]
                   ELSE StepsLoop(s, sub.pos, sub.next, sub.h, strict))
         ELSE LET id == parse_identifier(s, pos + 2) IN
              IF ~id.ok THEN [fail EXCEPT !.h = TouchNodes(h, cur)]
              ELSE With(Descendants(cur), LAMBDA desc :
                        StepsLoop(s, id.pos, apply_child_name(desc, id.name),
                                  TouchNodes(h, desc), strict))
    ELSE IF match(s, pos, <<".">>)
    THEN IF match(s, pos + 1, <<"*">>)
         THEN StepsLoop(s, pos + 2, apply_wildcard(cur), TouchNodes(h, cur), strict)
         ELSE LET id == parse_identifier(s, pos + 1) IN
              IF ~id.ok THEN fail
              ELSE StepsLoop(s, id.pos, apply_child_name(cur, id.name),
                             TouchNodes(h, cur), strict)
    ELSE IF match(s, pos, <<"[">>)
    THEN With(apply_array_subscript(cur, s, pos + 1, h, strict), LAMBDA sub :
              IF ~sub.ok THEN [fail EXCEPT !.h = sub.h]
              ELSE StepsLoop(s, sub.pos, sub.next, sub.h, strict))
    ELSE [ok |-> TRUE, nodes |-> cur, h |-> h]

\* eval_steps: the nodes the expression selects from the root $.
eval_steps(root, s, h, strict) ==
    LET pos == skip_ws(s, 0) IN
    IF ~match(s, pos, <<"$">>) THEN [ok |-> FALSE, nodes |-> <<>>, h |-> h]
    ELSE StepsLoop(s, pos + 1, <<NodeRef(root, <<"$">>)>>, h, strict)

\* The reads of the deep copies of the nodes selected.
RECURSIVE TouchTrees(_, _)
TouchTrees(h, nodes) ==
    IF nodes = <<>> THEN h
    ELSE TouchTrees(TouchTree(h, Head(nodes).val), Tail(nodes))

JsonPathResults(mode, paths, values) ==
    [mode |-> mode, count |-> IF paths /= <<>> THEN Len(paths) ELSE Len(values),
     paths |-> paths, values |-> values]

\* evaluate_jsonpath(document, expression, options): the results (NULL for
\* an error under strict) and the memory state after the call.
evaluate_jsonpath(document, expression, options) ==
    IF document = NULL THEN [res |-> NULL, h |-> NewHeap]
    ELSE
    With(eval_steps(DocRef(<<>>, document), expression, NewHeap, options.strict),
         LAMBDA steps :
    LET count == IF options.limit > 0 /\ options.limit < Len(steps.nodes)
                 THEN options.limit ELSE Len(steps.nodes)
        nodes == SubSeq(steps.nodes, 1, count)
        paths == IF options.mode \in {"JSONPATH_MODE_PATHS", "JSONPATH_MODE_PAIRS"}
                 THEN [i \in DOMAIN nodes |-> nodes[i].path] ELSE <<>>
        values == IF options.mode \in {"JSONPATH_MODE_VALUES", "JSONPATH_MODE_PAIRS"}
                  THEN [i \in DOMAIN nodes |-> clone_json_value(nodes[i].val.value)]
                  ELSE <<>>
    IN  IF ~steps.ok
        THEN [res |-> IF options.strict THEN NULL
                      ELSE JsonPathResults(options.mode, <<>>, <<>>),
              h |-> steps.h]
        ELSE [res |-> JsonPathResults(options.mode, paths, values),
              h |-> IF values /= <<>> THEN TouchTrees(steps.h, nodes) ELSE steps.h])

-----------------------------------------------------------------------------
(* Bounded inputs *)

\* The largest number among the scalar leaves.
MaxNumber == 1

\* The longest member list of a parsed object text.
MaxPairs == 3

Key(c) == <<c>>

Numbers == {JInt(n) : n \in 1..MaxNumber}

\* The scalar and array leaves.
Leaves == Numbers \cup {JNull, JArray(<<JInt(1)>>)}

\* All member lists over distinct keys of `keys`, in every order, with values
\* of `vals`.
RECURSIVE MemberLists(_, _)
MemberLists(keys, vals) ==
    {<<>>} \cup
    UNION {{<<JsonKeyValue(k, v)>> \o rest : rest \in MemberLists(keys \ {k}, vals)}
           : <<k, v>> \in keys \X vals}

ObjectsOver(keys, vals) == {JObject(ms) : ms \in MemberLists(keys, vals)}

\* The children of a top-level object: leaves and objects of leaves.
Inner == Leaves \cup ObjectsOver({Key("x")}, Leaves)

-----------------------------------------------------------------------------
(* Unused parts of the state stay at rest *)

ObjIdle == obj = NULL /\ order = <<>> /\ latest = <<>> /\ lastOp = <<>>

SerIdle ==
    /\ doc = NULL /\ twin = NULL /\ fileText = <<>> /\ outText = <<>>
    /\ strText = <<>> /\ reparsed = <<>>

KernelIdle ==
    /\ valA = NULL /\ valB = NULL /\ valC = NULL /\ diffAB = NULL
    /\ mergedBack = NULL /\ mergeLeft = NULL /\ mergeRight = NULL
    /\ destAfter = NULL /\ equalAB = NULL

\* A file that does not exist, and a file with the given bytes.
ABSENT == [exists |-> FALSE, bytes |-> <<>>]

File(bytes) == [exists |-> TRUE, bytes |-> bytes]

SaveIdle == target = ABSENT /\ temp = ABSENT /\ saved = <<>>

PathIdle ==
    /\ pathDoc = NULL /\ pathCall = <<>> /\ pathRes = NULL /\ heap = <<>>
    /\ pathStage = "idle"

NestIdle == nestRoot = NULL /\ nestSet = <<>> /\ nestGot = <<>>

CliIdle == files = <<>> /\ cliRun = <<>>

-----------------------------------------------------------------------------
(* An object under add_to_object, parse_json_string and merge_json_into *)

ObjKeys == {Key("a"), Key("b"), Key("c")}

ObjValues == Numbers \cup {JNull, JObject(<<>>)}

ObjMergeSources ==
    ObjectsOver({Key("b"), Key("c")}, {JNull} \cup ObjectsOver({Key("x")}, {JInt(1)}))

\* The paths and the value strings given to set_nested_item, each string
\* with the value it stands for.
ObjPaths == {<<"a">>, <<"a", ".", "x">>, <<"b", ".", "x">>}

ObjValueStrings ==
    {[str |-> <<"1">>, value |-> JInt(1)],
     [str |-> <<"n", "u", "l", "l">>, value |-> JNull]}

KeysOf(object) == {object.v[i].key : i \in DOMAIN object.v}

\* The keys of an object in list order, from object_head on.
KeyList(object) == [i \in DOMAIN object.v |-> object.v[i].key]

\* `keys` after the first insertions of the keys of the list ks, in order.
RECURSIVE FirstInsertions(_, _)
FirstInsertions(keys, ks) ==
    IF ks = <<>> THEN keys
    ELSE FirstInsertions(
            IF \E i \in DOMAIN keys : keys[i] = Head(ks) THEN keys
            ELSE Append(keys, Head(ks)),
            Tail(ks))

\* The text of an object with the given members, as a user writes it.
RECURSIVE PairsText(_, _)
PairsText(pairs, first) ==
    IF pairs = <<>> THEN <<>>
    ELSE (IF first THEN <<>> ELSE <<",", " ">>)
         \o <<"\"">> \o Head(pairs).key \o <<"\"", ":">>
         \o json_to_string(Head(pairs).value, FALSE)
         \o PairsText(Tail(pairs), FALSE)

ObjectText(pairs) == <<"{">> \o PairsText(pairs, TRUE) \o <<"}">>

\* Member lists of at most MaxPairs members, keys repeated at will.
PairLists ==
    UNION {[1..n -> {JsonKeyValue(k, v) : k \in {Key("a"), Key("b")},
                                           v \in {JInt(1), JNull}}]
           : n \in 0..MaxPairs}

\* The last value a list of members gives for key k, `old` if it gives none.
RECURSIVE LastValue(_, _, _)
LastValue(pairs, k, old) ==
    IF pairs = <<>> THEN old
    ELSE LastValue(Tail(pairs), k, IF Head(pairs).key = k THEN Head(pairs).value ELSE old)

\* The record of an operation that took the key order from `old` to `new`.
OpRecord(name, key, before, old, new) ==
    [name |-> name, key |-> key, before |-> before, newKeys |-> Len(new) - Len(old)]

ObjInit ==
    /\ obj = create_json_value("JSON_OBJECT")
    /\ order = <<>>
    /\ latest = [k \in ObjKeys |-> NULL]
    /\ lastOp = OpRecord("create_json_value", <<>>, 0, <<>>, <<>>)
    /\ SerIdle /\ KernelIdle /\ SaveIdle /\ PathIdle /\ NestIdle /\ CliIdle

\* add_to_object(obj, key, value)
AddToObject ==
    \E key \in ObjKeys, value \in ObjValues :
        LET added == add_to_object(obj, key, value) IN
        /\ added.ret = 1
        /\ obj' = added.object
        /\ order' = FirstInsertions(order, <<key>>)
        /\ latest' = [latest EXCEPT ![key] = value]
        /\ lastOp' = OpRecord("add_to_object", key, Len(obj.v), order, order')
        /\ UNCHANGED <<serVars, kernelVars,
                   saveVars, pathVars, nestVars, cliVars>>

\* obj = parse_json_string(text) for the text of an object, as the load at
\* the start of a command does it
ParseObject ==
    \E pairs \in PairLists :
        LET parsed == parse_json_string(ObjectText(pairs)) IN
        /\ order = <<>>
        /\ parsed /= NULL
        /\ obj' = parsed
        /\ order' = FirstInsertions(<<>>, [i \in DOMAIN pairs |-> pairs[i].key])
        /\ latest' = [k \in ObjKeys |-> LastValue(pairs, k, NULL)]
        /\ lastOp' = OpRecord("parse_json_string", <<>>, 0, <<>>, order')
        /\ UNCHANGED <<serVars, kernelVars,
                   saveVars, pathVars, nestVars, cliVars>>

\* merge_json_into(&obj, src): a child merged in place is still the node
\* that was added last, with its new content.
MergeIntoObject ==
    \E src \in ObjMergeSources :
        LET merged == merge_json_into(obj, src) IN
        /\ merged.ret = 1
        /\ obj' = merged.dest
        /\ order' = FirstInsertions(order, [i \in DOMAIN src.v |-> src.v[i].key])
        /\ latest' =
              [k \in ObjKeys |->
                 IF k \notin KeysOf(src) THEN latest[k]
                 ELSE IF latest[k].type = "JSON_OBJECT"
                         /\ get_object_item(src, k).type = "JSON_OBJECT"
                      THEN merge_json_into(latest[k], get_object_item(src, k)).dest
                      ELSE get_object_item(src, k)]
        /\ lastOp' = OpRecord("merge_json_into", <<>>, Len(obj.v), order, order')
        /\ UNCHANGED <<serVars, kernelVars,
                   saveVars, pathVars, nestVars, cliVars>>

\* set_nested_item(obj, key, value_str) with a path of one or two parts: the
\* second part is set in the child, which is created when missing and makes
\* the call fail when it is no container.
SetNestedItem ==
    \E key \in ObjPaths, vs \in ObjValueStrings :
        LET set == set_nested_item(obj, key, vs.str)
            top == <<key[1]>>
            child == IF latest[top] = NULL THEN create_json_value("JSON_OBJECT")
                     ELSE latest[top]
            fails == Len(key) > 1 /\ child.type /= "JSON_OBJECT"
        IN
        /\ obj' = set.object
        /\ set.ret = IF fails THEN 0 ELSE 1
        /\ order' = IF fails THEN order ELSE FirstInsertions(order, <<top>>)
        /\ latest' = IF fails THEN latest
                     ELSE IF Len(key) = 1 THEN [latest EXCEPT ![top] = vs.value]
                     ELSE [latest EXCEPT
                             ![top] = add_to_object(child, <<key[3]>>, vs.value).object]
        /\ lastOp' = OpRecord("set_nested_item", top, Len(obj.v), order, order')
        /\ UNCHANGED <<serVars, kernelVars,
                   saveVars, pathVars, nestVars, cliVars>>

ObjNext == AddToObject \/ ParseObject \/ MergeIntoObject \/ SetNestedItem

SpecObj == ObjInit /\ [][ObjNext]_vars

\* C3: in-memory iteration over the members of an object visits the keys in
\* the order of their first insertion: a new key is appended after all
\* existing members, an existing key keeps its position.
C3_InsertionOrder == KeyList(obj) = order

\* C4: no object holds two members with the same key, the member count
\* grows only by the keys that are new, and get_object_item(obj, k) returns
\* the value passed in the most recent successful add_to_object(obj, k, v).
C4_UniqueKeysLastValue ==
    /\ \A i, j \in DOMAIN obj.v : obj.v[i].key = obj.v[j].key => i = j
    /\ \A i \in DOMAIN obj.v :
          obj.v[i].value.type = "JSON_OBJECT" =>
             \A p, q \in DOMAIN obj.v[i].value.v :
                obj.v[i].value.v[p].key = obj.v[i].value.v[q].key => p = q
    /\ Len(obj.v) = lastOp.before + lastOp.newKeys
    /\ \A k \in ObjKeys : get_object_item(obj, k) = latest[k]

\* C4 witness: add_to_object has just replaced the value of the key that
\* was inserted first, in an object of three members.
C4_Witness ==
    /\ lastOp.name = "add_to_object"
    /\ lastOp.newKeys = 0
    /\ Len(obj.v) = 3
    /\ order[1] = lastOp.key
    /\ get_object_item(obj, lastOp.key) = JNull

-----------------------------------------------------------------------------
(* A document under the three serializers and the parser *)

\* The integers serialized: small ones, the first with seven digits, and
\* two whose digits do not fit six significant places.
IntSamples == {0, 7, -7, 999999, 1000000, 1234567, -123456789}

\* The strings serialized: a letter, the quote, the backslash, the named
\* control characters and two other bytes below 0x20.
StringSamples ==
    {<<c>> : c \in {"a", "\"", "\\", "\\b", "\t", "\n", "\f", "\r", "x01", "x1f"}}
    \cup {<<"a", "x01", "b">>, <<>>}

SerScalars ==
    {JNull, JBool(TRUE), JBool(FALSE), JNumber([m |-> 15, e |-> -1])}
    \cup {JInt(n) : n \in IntSamples} \cup {JString(str) : str \in StringSamples}

SerInner ==
    {JInt(1), JString(<<"x01">>)} \cup ObjectsOver({Key("x"), Key("y")}, {JInt(1)})

SerKeys == {Key("a"), Key("b")}

SerDocs ==
    SerScalars
    \cup {JArray(<<JInt(7), JString(<<"\n">>)>>), JArray(<<>>)}
    \cup ObjectsOver(SerKeys, SerInner)

\* The values that differ from value only in the insertion order of members.
Reorderings(value) == {t \in SerDocs : json_values_equal(value, t)}

SerInit ==
    /\ doc \in SerDocs
    /\ twin \in Reorderings(doc)
    /\ fileText = <<>> /\ outText = <<>> /\ strText = <<>> /\ reparsed = <<>>
    /\ ObjIdle /\ KernelIdle /\ SaveIdle /\ PathIdle /\ NestIdle /\ CliIdle

\* write_json_to_file(value, file, 0), as save_config calls it, on the
\* document and on its twin
WriteFile ==
    /\ fileText = <<>>
    /\ fileText' = <<write_json_to_file(doc, 0), write_json_to_file(twin, 0)>>
    /\ UNCHANGED <<doc, twin, outText, strText, reparsed, objVars, kernelVars,
                   saveVars, pathVars, nestVars, cliVars>>

\* print_item(value), as the get command calls it
PrintItem ==
    /\ outText = <<>>
    /\ outText' = <<print_item(doc), print_item(twin)>>
    /\ UNCHANGED <<doc, twin, fileText, strText, reparsed, objVars, kernelVars,
                   saveVars, pathVars, nestVars, cliVars>>

\* json_to_string(value, pretty), as the path command calls it
JsonToString ==
    \E pretty \in BOOLEAN :
        /\ strText = <<>>
        /\ strText' = <<json_to_string(doc, pretty), json_to_string(twin, pretty)>>
        /\ UNCHANGED <<doc, twin, fileText, outText, reparsed, objVars, kernelVars,
                   saveVars, pathVars, nestVars, cliVars>>

\* parse_json_string on the text the save writer produced
ParseFile ==
    /\ fileText /= <<>>
    /\ reparsed = <<>>
    /\ reparsed' = [from |-> "write_json_to_file",
                    value |-> parse_json_string(fileText[1])]
    /\ UNCHANGED <<doc, twin, fileText, outText, strText, objVars, kernelVars,
                   saveVars, pathVars, nestVars, cliVars>>

\* parse_json_string on the text json_to_string produced
ParseString ==
    /\ strText /= <<>>
    /\ reparsed = <<>>
    /\ reparsed' = [from |-> "json_to_string",
                    value |-> parse_json_string(strText[1])]
    /\ UNCHANGED <<doc, twin, fileText, outText, strText, objVars, kernelVars,
                   saveVars, pathVars, nestVars, cliVars>>

SerNext == WriteFile \/ PrintItem \/ JsonToString \/ ParseFile \/ ParseString

SpecSer == SerInit /\ [][SerNext]_vars

\* The position in text of the first byte of "k": for a one-byte key k, 0
\* when the text does not hold it.
KeyPos(text, k) ==
    LET hits == {i \in 1..(Len(text) - 3) :
                    SubSeq(text, i, i + 3) = <<"\"">> \o k \o <<"\"", ":">>}
    IN  IF hits = {} THEN 0 ELSE CHOOSE i \in hits : \A j \in hits : i <= j

\* The top-level keys of the document appear in text in ascending byte order.
KeysAscending(text) ==
    \A k1, k2 \in KeysOf(doc) :
        strcmp(k1, k2) < 0 => KeyPos(text, k1) < KeyPos(text, k2)

\* C5: each serializer entry point (the save writer, print_item and
\* json_to_string) emits the members of an object in ascending byte order of
\* key, so the document and a value that differs from it only in insertion
\* order serialize to the same bytes.
C5_SortedKeys ==
    doc.type = "JSON_OBJECT" =>
        \A texts \in {fileText, outText, strText} :
            texts /= <<>> => /\ KeysAscending(texts[1])
                             /\ texts[1] = texts[2]

\* The integers of more than six significant digits.
LongIntegers == {JInt(n) : n \in {i \in IntSamples : Abs(i) > 1000000}}

\* C6: parsing the output of a serializer yields a value structurally equal
\* to the value serialized (the integers that %g shortens left aside).
C6_RoundTrip ==
    (reparsed /= <<>> /\ doc \notin LongIntegers) =>
        /\ reparsed.value /= NULL
        /\ json_values_equal(reparsed.value, doc)

\* The plain decimal digits of an integral number.
PlainDecimal(d) ==
    (IF d.m < 0 THEN <<"-">> ELSE <<>>) \o NatDigits(Abs(d.m)) \o Zeros(d.e)

\* C7: every serializer entry point emits an integer as its plain decimal
\* digits, without decimal point or exponent, and parsing that text yields
\* the same number.
C7_IntegerDigits ==
    (doc.type = "JSON_NUMBER" /\ doc.v.e >= 0) =>
        /\ fileText /= <<>> => fileText[1] = PlainDecimal(doc.v)
        /\ outText /= <<>> => outText[1] = PlainDecimal(doc.v) \o <<"\n">>
        /\ strText /= <<>> => strText[1] = PlainDecimal(doc.v)
        /\ reparsed /= <<>> => reparsed.value = doc

-----------------------------------------------------------------------------
(* Two values under diff_json and merge_json_into *)

\* The children of the objects merged and diffed.
KernelInner ==
    Leaves \cup ObjectsOver({Key("x")}, Numbers \cup {JNull})
    \cup {JObject(<<JsonKeyValue(Key("y"), JInt(1))>>),
          JObject(<<JsonKeyValue(Key("x"), JInt(1)), JsonKeyValue(Key("y"), JInt(1))>>)}

KernelValues == Leaves \cup ObjectsOver({Key("a"), Key("b")}, KernelInner)

IsObject(value) == value /= NULL /\ value.type = "JSON_OBJECT"

KernelInit ==
    /\ valA \in KernelValues
    /\ valB \in KernelValues
    /\ valC = NULL
    /\ diffAB = NULL /\ mergedBack = NULL /\ destAfter = NULL /\ equalAB = NULL
    /\ mergeLeft = NULL /\ mergeRight = NULL
    /\ ObjIdle /\ SerIdle /\ SaveIdle /\ PathIdle /\ NestIdle /\ CliIdle

\* diffAB = diff_json(modified, original) with modified = valA, original = valB
Diff ==
    /\ diffAB = NULL /\ equalAB = NULL
    /\ diffAB' = diff_json(valA, valB)
    /\ UNCHANGED <<valA, valB, valC, mergedBack, mergeLeft, mergeRight, destAfter, equalAB,
                   objVars, serVars,
                   saveVars, pathVars, nestVars, cliVars>>

\* dest = clone_json_value(original); merge_json_into(&dest, diffAB)
MergeDiff ==
    /\ diffAB /= NULL
    /\ mergedBack = NULL
    /\ mergedBack' = merge_json_into(clone_json_value(valB), diffAB)
    /\ UNCHANGED <<valA, valB, valC, diffAB, mergeLeft, mergeRight, destAfter, equalAB,
                   objVars, serVars,
                   saveVars, pathVars, nestVars, cliVars>>

\* merge_json_into(&dest, src) with dest = valA, src = valB: the result, dest
\* and src after the call
MergeInto ==
    /\ destAfter = NULL /\ equalAB = NULL
    /\ destAfter' = [call |-> merge_json_into(valA, valB), src |-> valB]
    /\ UNCHANGED <<valA, valB, valC, diffAB, mergedBack, mergeLeft, mergeRight,
                   equalAB, objVars, serVars,
                   saveVars, pathVars, nestVars, cliVars>>

\* json_values_equal(valA, valB) and json_values_equal(valB, valA)
Equal ==
    /\ equalAB = NULL /\ diffAB = NULL /\ destAfter = NULL
    /\ equalAB' = [ab |-> json_values_equal(valA, valB),
                   ba |-> json_values_equal(valB, valA)]
    /\ UNCHANGED <<valA, valB, valC, diffAB, mergedBack, mergeLeft, mergeRight,
                   destAfter, objVars, serVars, saveVars, pathVars, nestVars, cliVars>>

KernelNext == Diff \/ MergeDiff \/ MergeInto \/ Equal

SpecKernel == KernelInit /\ [][KernelNext]_vars

\* The law of diff and merge in the claim's words: merging the diff into a
\* clone of original yields modified.
C8_DiffMergeAll ==
    mergedBack /= NULL =>
        /\ mergedBack.ret = 1
        /\ json_values_equal(mergedBack.dest, valA)

\* modified holds every key of original, at every level where both hold an
\* object.
RECURSIVE HoldsKeysOf(_, _)
HoldsKeysOf(modified, original) ==
    \A i \in DOMAIN original.v :
        LET child == get_object_item(modified, original.v[i].key) IN
        /\ child /= NULL
        /\ (IsObject(child) /\ IsObject(original.v[i].value))
              => HoldsKeysOf(child, original.v[i].value)

\* The pairs a diff can carry over: objects of which modified removes no
\* key, and values, not both objects, that differ.
DiffCarries(modified, original) ==
    IF IsObject(modified) /\ IsObject(original)
    THEN HoldsKeysOf(modified, original)
    ELSE ~json_values_equal(modified, original)

\* C8: merging diff(modified, original) into a clone of original yields a
\* value structurally equal to modified when both are objects and modified
\* holds every key of original (at every level where both hold an object),
\* or when they are not both objects and differ.
C8_DiffMerge ==
    (mergedBack /= NULL /\ DiffCarries(valA, valB)) =>
        /\ mergedBack.ret = 1
        /\ json_values_equal(mergedBack.dest, valA)

\* C8 witness: a diff with a nested part and a key new to original has been
\* merged back.
C8_Witness ==
    /\ mergedBack /= NULL
    /\ IsObject(valA) /\ IsObject(valB)
    /\ DiffCarries(valA, valB)
    /\ IsObject(get_object_item(diffAB, Key("a")))
    /\ IsObject(get_object_item(valB, Key("a")))
    /\ get_object_item(valB, Key("b")) = NULL
    /\ get_object_item(diffAB, Key("b")) /= NULL
    /\ ~json_values_equal(valA, valB)

\* dest after merge_into(dest, src), key by key.
RECURSIVE IsMerge(_, _, _)
IsMerge(after, dest, src) ==
    IF IsObject(dest) /\ IsObject(src)
    THEN /\ IsObject(after)
         /\ KeysOf(after) = KeysOf(dest) \cup KeysOf(src)
         /\ \A i, j \in DOMAIN after.v : after.v[i].key = after.v[j].key => i = j
         /\ \A k \in KeysOf(src) :
               IF IsObject(get_object_item(dest, k)) /\ IsObject(get_object_item(src, k))
               THEN IsMerge(get_object_item(after, k), get_object_item(dest, k),
                            get_object_item(src, k))
               ELSE get_object_item(after, k) = get_object_item(src, k)
         /\ \A k \in KeysOf(dest) \ KeysOf(src) :
               get_object_item(after, k) = get_object_item(dest, k)
    ELSE after = src

\* C10: merge_into(dest, src) with both operands objects leaves in dest, for
\* every key of src, the recursive merge when both children were objects and
\* a copy of the child of src otherwise, and keeps every key only dest holds;
\* with an operand that is no object dest becomes a copy of src; src is
\* unchanged.
C10_MergeInto ==
    destAfter /= NULL =>
        /\ destAfter.call.ret = 1
        /\ IsMerge(destAfter.call.dest, valA, valB)
        /\ destAfter.src = valB

\* C10 witness: a merge that recursed into a child, replaced a child and
\* kept a key of dest alone.
C10_Witness ==
    /\ destAfter /= NULL
    /\ IsObject(valA) /\ IsObject(valB)
    /\ get_object_item(valA, Key("a")) = JObject(<<JsonKeyValue(Key("x"), JInt(1))>>)
    /\ get_object_item(valB, Key("a")) = JObject(<<JsonKeyValue(Key("y"), JInt(1))>>)
    /\ get_object_item(valA, Key("b")) = JNull
    /\ get_object_item(valB, Key("b")) = NULL
    /\ Len(get_object_item(destAfter.call.dest, Key("a")).v) = 2

\* Structural equality as the specification defines it: the same kind, and
\* equal content; arrays item by item in order, objects key by key over the
\* same set of keys.
RECURSIVE StructEqual(_, _)
StructEqual(a, b) ==
    /\ a /= NULL /\ b /= NULL
    /\ a.type = b.type
    /\ CASE a.type \in {"JSON_NULL"} -> TRUE
         [] a.type \in {"JSON_BOOL", "JSON_NUMBER", "JSON_STRING"} -> a.v = b.v
         [] a.type = "JSON_ARRAY" ->
              /\ Len(a.v) = Len(b.v)
              /\ \A i \in DOMAIN a.v : StructEqual(a.v[i], b.v[i])
         [] a.type = "JSON_OBJECT" ->
              /\ KeysOf(a) = KeysOf(b)
              /\ \A k \in KeysOf(a) :
                    StructEqual(get_object_item(a, k), get_object_item(b, k))

RECURSIVE DiffKeys(_, _)
DiffKeys(modified, original) ==
    {k \in KeysOf(modified) :
        LET m == get_object_item(modified, k)
            o == get_object_item(original, k)
        IN  \/ o = NULL
            \/ IsObject(m) /\ IsObject(o) /\ DiffKeys(m, o) /= {}
            \/ ~(IsObject(m) /\ IsObject(o)) /\ ~StructEqual(m, o)}

\* d is the diff of modified against original, key by key.
RECURSIVE IsDiff(_, _, _)
IsDiff(d, modified, original) ==
    IF IsObject(modified) /\ IsObject(original)
    THEN /\ IsObject(d)
         /\ KeysOf(d) = DiffKeys(modified, original)
         /\ \A i, j \in DOMAIN d.v : d.v[i].key = d.v[j].key => i = j
         /\ \A k \in KeysOf(d) :
               LET m == get_object_item(modified, k)
                   o == get_object_item(original, k)
               IN  IF IsObject(m) /\ IsObject(o)
                   THEN IsDiff(get_object_item(d, k), m, o)
                   ELSE get_object_item(d, k) = m
    ELSE IF StructEqual(modified, original)
    THEN d = JObject(<<>>)
    ELSE d = modified

\* C11: diff(modified, original) of two objects holds exactly the keys of
\* modified that original lacks, or under which both hold objects with a
\* non-empty recursive diff, or under which the children, not both objects,
\* are unequal; the value is the recursive diff in the second case and a
\* copy of the child of modified otherwise.  For operands not both objects
\* it is the empty object when they are equal and a copy of modified
\* otherwise.
C11_Diff == diffAB /= NULL => IsDiff(diffAB, valA, valB)

\* C11 witness: a diff that holds a recursive diff under one key and leaves
\* out a key with equal children.
C11_Witness ==
    /\ diffAB /= NULL
    /\ IsObject(valA) /\ IsObject(valB)
    /\ IsObject(get_object_item(valB, Key("a")))
    /\ IsObject(get_object_item(diffAB, Key("a")))
    /\ get_object_item(diffAB, Key("a")) /= get_object_item(valA, Key("a"))
    /\ get_object_item(valA, Key("b")) /= NULL
    /\ get_object_item(diffAB, Key("b")) = NULL

-----------------------------------------------------------------------------
(* Three values under merge_json_into, merged in two groupings *)

AssocInner ==
    {JInt(1), JObject(<<>>), JObject(<<JsonKeyValue(Key("x"), JInt(1))>>)}

AssocValues == {JInt(1), JNull} \cup ObjectsOver({Key("a"), Key("b")}, AssocInner)

\* merge(x, y): merge_into applied to a clone of x with source y.
merge(x, y) == merge_json_into(clone_json_value(x), y).dest

AssocInit ==
    /\ valA \in AssocValues
    /\ valB \in AssocValues
    /\ valC \in AssocValues
    /\ mergeLeft = NULL /\ mergeRight = NULL
    /\ diffAB = NULL /\ mergedBack = NULL /\ destAfter = NULL /\ equalAB = NULL
    /\ ObjIdle /\ SerIdle /\ SaveIdle /\ PathIdle /\ NestIdle /\ CliIdle

\* merge(merge(a, b), c)
MergeLeft ==
    /\ mergeLeft = NULL
    /\ mergeLeft' = merge(merge(valA, valB), valC)
    /\ UNCHANGED <<valA, valB, valC, diffAB, mergedBack, mergeRight, destAfter, equalAB,
                   objVars, serVars,
                   saveVars, pathVars, nestVars, cliVars>>

\* merge(a, merge(b, c))
MergeRight ==
    /\ mergeRight = NULL
    /\ mergeRight' = merge(valA, merge(valB, valC))
    /\ UNCHANGED <<valA, valB, valC, diffAB, mergedBack, mergeLeft, destAfter, equalAB,
                   objVars, serVars,
                   saveVars, pathVars, nestVars, cliVars>>

AssocNext == MergeLeft \/ MergeRight

SpecAssoc == AssocInit /\ [][AssocNext]_vars

\* The top-level keys of a value; a value that is no object has none.
TopKeys(value) == IF IsObject(value) THEN KeysOf(value) ELSE {}

\* Associativity in the claim's words: b and c share no top-level key.
C9_AssocDisjoint ==
    (mergeLeft /= NULL /\ mergeRight /= NULL
     /\ TopKeys(valB) \cap TopKeys(valC) = {})
        => json_values_equal(mergeLeft, mergeRight)

\* C9: merge(merge(a, b), c) is structurally equal to merge(a, merge(b, c))
\* when b and c share no top-level key and b is an object whenever a and c
\* both are.
C9_Assoc ==
    (mergeLeft /= NULL /\ mergeRight /= NULL
     /\ TopKeys(valB) \cap TopKeys(valC) = {}
     /\ ((IsObject(valA) /\ IsObject(valC)) => IsObject(valB)))
        => json_values_equal(mergeLeft, mergeRight)

\* C9 witness: three objects, b and c with one key each, merged both ways; b
\* merges into a child of a and c adds a key.
C9_Witness ==
    /\ mergeLeft /= NULL /\ mergeRight /= NULL
    /\ IsObject(valA) /\ IsObject(valB) /\ IsObject(valC)
    /\ TopKeys(valB) = {Key("a")} /\ TopKeys(valC) = {Key("b")}
    /\ IsObject(get_object_item(valA, Key("a")))
    /\ get_object_item(valB, Key("a")) = JObject(<<JsonKeyValue(Key("x"), JInt(1))>>)
    /\ get_object_item(valA, Key("b")) = NULL
    /\ Len(mergeLeft.v) = 2

-----------------------------------------------------------------------------
(* A tree under set_nested_item and get_nested_item *)

\* The number of set_nested_item calls in a run.
MaxSets == 1

\* The trees the calls start from.
NestRoots ==
    {JObject(<<>>),
     JObject(<<JsonKeyValue(Key("a"), JInt(1))>>),
     JObject(<<JsonKeyValue(Key("a"), JObject(<<JsonKeyValue(Key("b"), JInt(1))>>))>>),
     JObject(<<JsonKeyValue(Key("a"), JArray(<<JInt(1)>>))>>)}

\* n segments "a" joined by dots.
Segs(n) == [i \in 1..(2 * n - 1) |-> IF i % 2 = 1 THEN "a" ELSE "."]

\* The path with one segment more than the parts array of set_nested_item
\* holds.
LongKey == Segs(MaxParts + 1)

NestKeys ==
    {<<"a">>, <<"b">>, <<"a", ".", "b">>, <<"a", ".", "b", ".", "c">>,
     <<"a", ".", "0">>, <<"a", ".", "2">>, <<"a", ".", "1", ".", "b">>,
     <<"a", ".", "-", "1">>, <<"a", ".", "+", "0">>, <<"a", ".">>,
     <<"a", ".", ".", "b">>, <<"a", ".", "0", ".", "b">>,
     <<"a", ".", "x", ".", "b">>, <<".">>, <<>>, LongKey}

NestLiterals ==
    {<<"t", "r", "u", "e">>, <<"f", "a", "l", "s", "e">>, <<"n", "u", "l", "l">>,
     <<>>, <<"7">>, <<"-", "1", ".", "5">>, <<"1", "e", "2">>,
     <<"1", "2", "a", "b", "c">>, <<"a", "b", "c">>, <<"T", "r", "u", "e">>,
     <<" ", "1">>, <<"1", "e">>}

\* The calls of set_nested_item: every key with two value strings, one key
\* with every value string.
NestCalls ==
    (NestKeys \X {<<"7">>, <<"a", "b", "c">>}) \cup ({<<"a", ".", "b">>} \X NestLiterals)

NestInit ==
    /\ nestRoot \in NestRoots
    /\ nestSet = <<>>
    /\ nestGot = <<>>
    /\ ObjIdle /\ SerIdle /\ KernelIdle /\ SaveIdle /\ PathIdle /\ CliIdle

\* set_nested_item(config, key, value_str).  A read leaves the tree alone, so
\* the calls that follow a read are the calls that follow the state before it.
NestSet ==
    /\ (IF nestSet = <<>> THEN 0 ELSE nestSet.count) < MaxSets
    /\ nestGot = <<>>
    /\ \E c \in NestCalls :
       \E call \in {set_nested_item(nestRoot, c[1], c[2])} :
        /\ nestRoot' = call.object
        /\ nestSet' = [key |-> c[1], value_str |-> c[2], ret |-> call.ret,
                       before |-> nestRoot,
                       count |-> IF nestSet = <<>> THEN 1 ELSE nestSet.count + 1]
        /\ nestGot' = <<>>
        /\ UNCHANGED <<objVars, serVars, kernelVars, saveVars, pathVars, cliVars>>

\* value = get_nested_item(config, key)
NestGet ==
    \E key \in NestKeys :
        /\ nestGot = <<>>
        /\ nestGot' = [key |-> key, value |-> get_nested_item(nestRoot, key)]
        /\ UNCHANGED <<nestRoot, nestSet, objVars, serVars, kernelVars, saveVars,
                       pathVars, cliVars>>

NestNext == NestSet \/ NestGet

SpecNested == NestInit /\ [][NestNext]_vars

\* C29: whenever set_nested_item returns failure (a scalar met while parts
\* remain, an invalid array index, a key with no part), the tree is equal to
\* the tree before the call: no intermediate object has been created and no
\* array has been extended.
C29_FailureLeavesTree ==
    (nestSet /= <<>> /\ nestSet.ret = 0) => nestRoot = nestSet.before

\* A call fails on the scalar a.b with the part c remaining.
C29_Witness ==
    /\ nestSet /= <<>> /\ nestSet.ret = 0
    /\ nestSet.key = <<"a", ".", "b", ".", "c">>
    /\ get_nested_item(nestSet.before, <<"a", ".", "b">>) = JInt(1)
    /\ nestRoot = nestSet.before

\* C13: after a set_nested_item that returned success, get_nested_item on
\* the same path returns the value made of the value string.
C13_SetThenGet ==
    (nestSet /= <<>> /\ nestSet.ret = 1 /\ nestGot /= <<>>
     /\ nestGot.key = nestSet.key)
        => nestGot.value = NewValue(nestSet.value_str)

\* s[lo..hi] is a run of one or more digits.
DigitRun(s, lo, hi) == lo <= hi /\ \A i \in lo..hi : isdigit(s[i])

\* s[lo..hi] is digits, digits with a fraction, or a fraction alone.
IsMantissa(s, lo, hi) ==
    \/ DigitRun(s, lo, hi)
    \/ /\ lo < hi
       /\ \E d \in lo..hi :
            /\ s[d] = "."
            /\ d = lo \/ DigitRun(s, lo, d - 1)
            /\ d = hi \/ DigitRun(s, d + 1, hi)

\* s[lo..hi] is empty or an exponent: e or E, an optional sign, digits.
IsExponent(s, lo, hi) ==
    \/ lo > hi
    \/ /\ s[lo] \in {"e", "E"}
       /\ \/ DigitRun(s, lo + 1, hi)
          \/ lo + 1 <= hi /\ s[lo + 1] \in {"+", "-"} /\ DigitRun(s, lo + 2, hi)

\* The string is entirely a number: an optional sign, a mantissa and an
\* optional exponent, and no other byte.
IsNumberText(s) ==
    /\ s /= <<>>
    /\ \E first \in 1..2 :
        /\ first = 2 => s[1] \in {"+", "-"}
        /\ \E m \in first..Len(s) :
              IsMantissa(s, first, m) /\ IsExponent(s, m + 1, Len(s))

\* The type of the value that the rules of the specification make of a
\* literal.
InferredType(literal) ==
    IF literal \in {<<"t", "r", "u", "e">>, <<"f", "a", "l", "s", "e">>}
    THEN "JSON_BOOL"
    ELSE IF literal = <<"n", "u", "l", "l">> THEN "JSON_NULL"
    ELSE IF IsNumberText(literal) THEN "JSON_NUMBER"
    ELSE "JSON_STRING"

\* C14: the value that a successful set_nested_item stores has the type the
\* rules give for the literal: a Bool of that truth value for "true" and
\* "false", Null for "null", a Number for a string that is entirely a number,
\* and for every other string a String that holds the literal itself.
C14_Inference ==
    (nestSet /= <<>> /\ nestSet.ret = 1 /\ nestSet.key = <<"a", ".", "b">>)
        => LET stored == get_nested_item(nestRoot, nestSet.key)
               type == InferredType(nestSet.value_str)
           IN  /\ stored /= NULL
               /\ stored.type = type
               /\ type = "JSON_BOOL"
                    => stored = JBool(nestSet.value_str = <<"t", "r", "u", "e">>)
               /\ type = "JSON_STRING" => stored = JString(nestSet.value_str)

\* The segments of a path: the path split at every dot, an empty string
\* between two dots, before a leading dot and after a trailing one.
Segments(path) ==
    LET dots == SelectSeq([i \in 1..Len(path) |-> i], LAMBDA i : path[i] = ".")
        cuts == <<0>> \o dots \o <<Len(path) + 1>>
    IN  [k \in 1..(Len(cuts) - 1) |-> SubSeq(path, cuts[k] + 1, cuts[k + 1] - 1)]

\* The segment is a base-10 integer: an optional sign and digits.
IsIndex(segment) ==
    \/ DigitRun(segment, 1, Len(segment))
    \/ /\ Len(segment) >= 2 /\ segment[1] \in {"+", "-"}
       /\ DigitRun(segment, 2, Len(segment))

IndexOf(segment) ==
    IF segment[1] = "-" THEN 0 - DigitsValue(Tail(segment))
    ELSE IF segment[1] = "+" THEN DigitsValue(Tail(segment))
    ELSE DigitsValue(segment)

\* The node that one segment addresses in a node: the member of that name of
\* an object, the element at that index of an array, and NULL (absent) for a
\* missing key, for a segment that is not an index within the bounds, and for
\* a scalar.
AddressedBy(node, segment) ==
    IF node = NULL THEN NULL
    ELSE IF node.type = "JSON_OBJECT"
         THEN IF \E i \in DOMAIN node.v : node.v[i].key = segment
              THEN node.v[CHOOSE i \in DOMAIN node.v :
                            /\ node.v[i].key = segment
                            /\ \A j \in 1..(i - 1) : node.v[j].key /= segment].value
              ELSE NULL
    ELSE IF node.type = "JSON_ARRAY"
         THEN IF IsIndex(segment) /\ IndexOf(segment) \in 0..(Len(node.v) - 1)
              THEN node.v[IndexOf(segment) + 1]
              ELSE NULL
    ELSE NULL

\* The node that the segments lo..hi address from a node, in order.
RECURSIVE Addressed(_, _, _, _)
Addressed(node, segments, lo, hi) ==
    IF node = NULL \/ lo > hi THEN node
    ELSE IF lo = hi THEN AddressedBy(node, segments[lo])
    ELSE Addressed(Addressed(node, segments, lo, (lo + hi) \div 2),
                   segments, (lo + hi) \div 2 + 1, hi)

\* C15: get_nested_item returns the node that the segments of the path
\* address in order, and nothing (NULL) when a segment names a missing key,
\* is not an index within the bounds of an array or meets a scalar; the tree
\* is the one it was before the call.
C15_GetAddressed ==
    nestGot /= <<>>
        => nestGot.value = Addressed(nestRoot, Segments(nestGot.key), 1,
                                     Len(Segments(nestGot.key)))

-----------------------------------------------------------------------------
(* json_config.c: save_config, with the faults its I/O calls can meet *)

\* sizeof(buffer) in the copy loop of save_config.
BufferSize == 4096

\* The most bytes a failing fwrite still writes.
MaxWritten == 2

\* The I/O outcomes of one call: no fault, or the one call that fails.
\* "rename" is a rename that fails with an errno other than EXDEV; "exdev"
\* is a rename that fails with EXDEV, after which the copy goes well; the
\* faults named exdev_... strike in the copy after such a rename.
Faults ==
    {"none", "fopen_temp", "write_json", "newline", "rename", "exdev",
     "exdev_fopen_src", "exdev_fopen_dst", "exdev_fread", "exdev_fwrite"}

\* The copy loop: fread a buffer from src at `offset`, fwrite it to dst.  A
\* failing fread returns 0 and ends the loop like the end of the file; a
\* failing fwrite writes fewer bytes than asked.
RECURSIVE CopyLoop(_, _, _, _, _)
CopyLoop(src, offset, dst, fault, written) ==
    LET bytes == IF fault = "exdev_fread" THEN 0
                 ELSE Min(BufferSize, Len(src) - offset)
    IN  IF bytes = 0 THEN [copy_success |-> 1, dst |-> dst]
        ELSE IF fault = "exdev_fwrite"
        THEN [copy_success |-> 0,
              dst |-> dst \o SubSeq(src, offset + 1, offset + Min(written, bytes - 1))]
        ELSE CopyLoop(src, offset + bytes,
                      dst \o SubSeq(src, offset + 1, offset + bytes), fault, written)

\* unlink(temp_filepath) left out.
unlink_skipped(file) == file

\* unlink(temp_filepath): the file is gone.
unlink(file) == ABSENT

\* The temporary file when save_config closes it: a failed write leaves a
\* part of the text in it.
TempClosed(text, fault, written) ==
    IF fault = "write_json" THEN File(SubSeq(text, 1, Min(written, Len(text) - 1)))
    ELSE IF fault = "newline" THEN File(SubSeq(text, 1, Len(text) - 1))
    ELSE File(text)

\* save_config from the closed temporary file on.
SaveClosed(filepath, closed, fault, written) ==
    IF fault = "none"
    THEN [ret |-> 1, filepath |-> closed, temp |-> ABSENT, created |-> TRUE]
    ELSE IF fault \in {"write_json", "newline", "rename", "exdev_fopen_src",
                       "exdev_fopen_dst"}
    THEN [ret |-> 0, filepath |-> filepath, temp |-> unlink(closed),
          created |-> TRUE]
    ELSE With(CopyLoop(closed.bytes, 0, <<>>, fault, written), LAMBDA copy :
              [ret |-> copy.copy_success, filepath |-> File(copy.dst),
               temp |-> unlink(closed), created |-> TRUE])

\* save_config(filepath, json): the result, the file at filepath and the
\* temporary file after the call, and whether the call created (or
\* truncated) the temporary file.
save_config(filepath, json, fault, written) ==
    IF json = NULL \/ fault = "fopen_temp"
    THEN [ret |-> 0, filepath |-> filepath, temp |-> temp, created |-> FALSE]
    ELSE SaveClosed(filepath,
                    TempClosed(write_json_to_file(json, 0) \o <<"\n">>, fault,
                               written),
                    fault, written)

SaveValues ==
    {JInt(1), JObject(<<>>), JObject(<<JsonKeyValue(Key("a"), JInt(1))>>)}

SaveInit ==
    /\ target \in {ABSENT, File(write_json_to_file(JObject(<<>>), 0) \o <<"\n">>)}
    /\ temp \in {ABSENT, File(<<"{">>)}
    /\ saved = <<>>
    /\ ObjIdle /\ SerIdle /\ KernelIdle /\ PathIdle /\ NestIdle /\ CliIdle

\* save_config(filepath, json)
SaveConfig ==
    \E json \in SaveValues \cup {NULL}, fault \in Faults, written \in 0..MaxWritten :
        \E call \in {save_config(target, json, fault, written)} :
        /\ target' = call.filepath
        /\ temp' = call.temp
        /\ saved' = [json |-> json, fault |-> fault, before |-> target,
                     ret |-> call.ret, created |-> call.created]
        /\ UNCHANGED <<objVars, serVars, kernelVars, pathVars, nestVars, cliVars>>

SaveNext == SaveConfig

SpecSave == SaveInit /\ [][SaveNext]_vars

\* C1: save_config is all-or-nothing on the target: after a call that
\* returns failure the target file is what it was before the call, after a
\* call that returns success it holds the complete serialization of the
\* value and the trailing newline.
C1_AllOrNothing ==
    saved /= <<>> =>
        /\ saved.ret = 0 => target = saved.before
        /\ saved.ret = 1 =>
              target = File(write_json_to_file(saved.json, 0) \o <<"\n">>)

\* C26: whenever save_config returns, with success or with failure, the
\* temporary file it created no longer exists under its temporary path.
C26_TempRemoved ==
    (saved /= <<>> /\ saved.created) => temp = ABSENT

\* A call failed in the copy after a rename across devices, and its
\* temporary file is gone.
C26_Witness ==
    /\ saved /= <<>> /\ saved.created
    /\ saved.fault = "exdev_fwrite" /\ saved.ret = 0
    /\ temp = ABSENT

-----------------------------------------------------------------------------
(* A document under evaluate_jsonpath, free_jsonpath_results and           *)
(* free_json_value                                                         *)

\* The expressions evaluated.
PathExprs ==
    {
     <<"$", ".", "a">>,   \* $.a  (a child by name)
     <<"$", ".", "*">>,   \* $.*  (every child)
     <<"$", ".", ".", "a">>,   \* $..a  (recursive descent)
     <<"$", "[", "*", "]">>,   \* $[*]  (every item)
     <<"$", "[", "0", ",", "1", "]">>,   \* $[0,1]  (a union of indices)
     <<"$", "[", "0", ":", "2", "]">>,   \* $[0:2]  (a slice)
     <<"$", "[", "'", "a", "'", ",", "'", "b", "'", "]">>,   \* $['a','b']  (a union of names)
     <<"$", "[", "?", "(", "@", ".", "a", " ", "=", "=", " ", "1", ")", "]">>,   \* $[?(@.a == 1)]  (a comparison with a literal)
     <<"$", "[", "?", "(", "@", ".", "a", " ", "!", "=", " ", "@", ".", "b", ")", "]">>,   \* $[?(@.a != @.b)]  (a comparison of two paths)
     <<"$", "[", "?", "(", "@", ".", "a", ")", "]">>,   \* $[?(@.a)]  (a bare @-path)
     <<"$", "[", "?", "(", "!", "@", ".", "a", ")", "]">>,   \* $[?(!@.a)]  (a negated @-path)
     <<"$", "[", "?", "(", "@", ".", "a", " ", "&", "&", " ", "@", ".", "b", ")", "]">>,   \* $[?(@.a && @.b)]  (a conjunction of @-paths)
     <<"$", "[", "?", "(", "@", ".", "a", " ", ">", " ", "0", " ", "|", "|", " ", "@", ".", "b", ")", "]">>,   \* $[?(@.a > 0 || @.b)]  (a disjunction)
     <<"$", "[", "?", "(", "@", ")", "]">>,   \* $[?(@)]  (the item itself)
     <<"$", ".", "a", "[", "?", "(", "@", ".", "b", " ", "=", "=", " ", "t", "r", "u", "e", ")", "]">>,   \* $.a[?(@.b == true)]  (a filter below a child)
     <<"$", "[", "?", "(", "@", ".", "a", " ", "=", "=", " ", "1">>,   \* $[?(@.a == 1  (a filter that is not closed)
     <<".", "a">>,   \* .a  (no $ at the start)
     <<"$", "[", "0">>,   \* $[0  (a bracket that is not closed)
     <<"$", ".", "a", " ", "x">>,   \* $.a x  (characters after a path)
     <<"$", "[", "?", "(", "@", ".", ".", "a", ")", "]">>,   \* $[?(@..a)]  (a recursive descent from @ in a filter)
     <<"$", "[", ":", "2", "]">>,   \* $[:2]  (a slice without a start)
     <<"$", "[", "0", ":", ":", "2", "]">>,   \* $[0::2]  (a slice without an end, with a step)
     <<"$", "[", "-", "1", ":", "]">>,   \* $[-1:]  (a slice from a negative index)
     <<"$", "[", "0", ",", "-", "1", "]">>,   \* $[0,-1]  (a union with a negative index)
     <<"$", "[", "?", "(", "!", "@", ".", "a", " ", "=", "=", " ", "@", ".", "b", ")", "]">>,   \* $[?(!@.a == @.b)]  (a negation before a comparison)
     <<"$", "[", "?", "(", "@", ".", "a", " ", "=", "=", " ", "1", " ", "|", "|", " ", "@", ".", "b", " ", "=", "=", " ", "t", "r", "u", "e", " ", "&", "&", " ", "@", ".", "a", " ", "=", "=", " ", "0", ")", "]">>   \* $[?(@.a == 1 || @.b == true && @.a == 0)]  (|| before &&)
    }

PathItems ==
    << JObject(<<JsonKeyValue(Key("b"), JBool(TRUE)), JsonKeyValue(Key("a"), JInt(1))>>),
       JObject(<<JsonKeyValue(Key("a"), JNull)>>),
       JObject(<<JsonKeyValue(Key("b"), JBool(FALSE)),
                 JsonKeyValue(Key("a"), JArray(<<JInt(1)>>))>>) >>

\* The documents queried: an array of objects, an object that holds it, an
\* object of scalars, an object whose keys are not all identifiers and a
\* scalar.
PathDocs ==
    {JArray(PathItems),
     JArray(SubSeq(PathItems, 1, 1)),
     JObject(<<JsonKeyValue(Key("a"), JArray(PathItems))>>),
     JObject(<<JsonKeyValue(Key("b"), JInt(0)), JsonKeyValue(Key("a"), JInt(1))>>),
     JObject(<<JsonKeyValue(<<"a", "-", "b">>, JInt(1)),
               JsonKeyValue(<<"1">>, JArray(<<JInt(2)>>)),
               JsonKeyValue(<<"_", "1">>, JInt(3))>>),
     JInt(1)}

PathOptions ==
    [mode : {"JSONPATH_MODE_VALUES", "JSONPATH_MODE_PATHS", "JSONPATH_MODE_PAIRS"},
     limit : {-1, 0, 1, 2}, strict : BOOLEAN]

\* What a call returns once freed memory was used: anything.
Undefined == [mode |-> "undefined", count |-> 0, paths |-> <<>>, values |-> <<>>]

PathInit ==
    /\ pathDoc \in PathDocs
    /\ pathCall = <<>>
    /\ pathRes = NULL
    /\ heap = NewHeap
    /\ pathStage = "loaded"
    /\ ObjIdle /\ SerIdle /\ KernelIdle /\ SaveIdle /\ NestIdle /\ CliIdle

\* res = evaluate_jsonpath(doc, expression, &options)
EvaluateJsonpath ==
    /\ pathStage = "loaded"
    /\ \E expression \in PathExprs, options \in PathOptions :
       \E call \in {evaluate_jsonpath(pathDoc, expression, options)} :
        /\ pathCall' = [expression |-> expression, options |-> options]
        /\ heap' = call.h
        /\ pathRes' \in (IF call.h.uaf THEN {call.res, Undefined} ELSE {call.res})
        /\ pathStage' = "evaluated"
        /\ UNCHANGED <<pathDoc, objVars, serVars, kernelVars, saveVars,
                   nestVars, cliVars>>

\* free_jsonpath_results(res): the paths and the copies are freed, no node
\* of the document is
FreeJsonpathResults ==
    /\ pathStage = "evaluated"
    /\ pathRes' = NULL
    /\ pathStage' = "released"
    /\ UNCHANGED <<pathDoc, pathCall, heap, objVars, serVars, kernelVars, saveVars,
                   nestVars, cliVars>>

\* free_json_value(doc) at the end of the command
FreeDocument ==
    /\ pathStage = "released"
    /\ heap' = Free(heap, DocRef(<<>>, pathDoc))
    /\ pathStage' = "freed"
    /\ UNCHANGED <<pathDoc, pathCall, pathRes, objVars, serVars, kernelVars, saveVars,
                   nestVars, cliVars>>

PathNext == EvaluateJsonpath \/ FreeJsonpathResults \/ FreeDocument

SpecPath == PathInit /\ [][PathNext]_vars

\* C2: evaluate_jsonpath followed by free_jsonpath_results leaves the
\* document intact, whatever the expression and its filter: no node of the
\* document is freed and no freed memory is used, and the document can then
\* be freed exactly once.
C2_DocumentIntact ==
    /\ pathStage \in {"evaluated", "released"} => (heap.freed = {} /\ ~heap.uaf)
    /\ pathStage = "freed" => (heap.freed = {<<>>} /\ ~heap.uaf)

\* The call evaluated one of the expressions, and its results are held.
Evaluated(expressions) ==
    pathStage = "evaluated" /\ pathCall.expression \in expressions

\* The call asked for every result, as pairs of a path and a value.
AllPairs ==
    pathCall.options.limit = 0 /\ pathCall.options.mode = "JSONPATH_MODE_PAIRS"

\* The results are these pairs, in this order.
ResultsAre(pairs) ==
    /\ pathRes /= NULL
    /\ pathRes.count = Len(pairs)
    /\ pathRes.paths = [i \in DOMAIN pairs |-> pairs[i].path]
    /\ pathRes.values = [i \in DOMAIN pairs |-> pairs[i].value]

\* Expressions that the grammar of the specification does not derive: no $
\* at the start, brackets that are not closed, characters after a path, and
\* a recursive descent from @ inside a filter.
Underivable ==
    {<<".", "a">>,
     <<"$", "[", "0">>,
     <<"$", "[", "?", "(", "@", ".", "a", " ", "=", "=", " ", "1">>,
     <<"$", ".", "a", " ", "x">>,
     <<"$", "[", "?", "(", "@", ".", ".", "a", ")", "]">>}

\* C17: an expression that the grammar does not derive yields no result set
\* under strict and a result set with count 0 otherwise.
C17_Rejected ==
    Evaluated(Underivable)
        => IF pathCall.options.strict THEN pathRes = NULL
           ELSE pathRes /= NULL /\ pathRes.count = 0

\* The members named `name` in the tree of `value`, each with its path, in
\* pre-order: the member of a node before the members found in its children.
RECURSIVE MembersNamed(_, _, _)
MembersNamed(value, path, name) ==
    (IF value.type = "JSON_OBJECT" /\ name \in KeysOf(value)
     THEN <<[path |-> path_append_prop(path, name),
             value |-> get_object_item(value, name)]>>
     ELSE <<>>)
    \o (IF value.type = "JSON_OBJECT"
        THEN Flatten([i \in DOMAIN value.v |->
                        MembersNamed(value.v[i].value,
                                     path_append_prop(path, value.v[i].key), name)])
        ELSE IF value.type = "JSON_ARRAY"
        THEN Flatten([i \in DOMAIN value.v |->
                        MembersNamed(value.v[i], path_append_index(path, i - 1), name)])
        ELSE <<>>)

\* C18: the results of $..a are the members named a at every depth of the
\* document, those of the root object included, each with its path, in
\* pre-order.
C18_DescendantMembers ==
    (Evaluated({<<"$", ".", ".", "a">>}) /\ AllPairs)
        => ResultsAre(MembersNamed(pathDoc, <<"$">>, Key("a")))

\* The slices of the model: start, end and step as the selector gives them,
\* an omitted start as 0, has_end FALSE for an omitted end.
SliceSelectors ==
    {[expression |-> <<"$", "[", "0", ":", "2", "]">>,
      start |-> 0, has_end |-> TRUE, end |-> 2, step |-> 1],
     [expression |-> <<"$", "[", ":", "2", "]">>,
      start |-> 0, has_end |-> TRUE, end |-> 2, step |-> 1],
     [expression |-> <<"$", "[", "0", ":", ":", "2", "]">>,
      start |-> 0, has_end |-> FALSE, end |-> 0, step |-> 2]}

\* The elements of an array at start, start + step, ... below min(end, n),
\* in ascending order, each with its path; nothing for a value that is not
\* an array.
SliceOf(value, path, sel) ==
    IF value.type /= "JSON_ARRAY" THEN <<>>
    ELSE LET n == Len(value.v)
             below == IF sel.has_end THEN Min(sel.end, n) ELSE n
             count == IF below > sel.start
                      THEN (below - sel.start + sel.step - 1) \div sel.step ELSE 0
         IN  [k \in 1..count |->
                [path |-> path_append_index(path, sel.start + (k - 1) * sel.step),
                 value |-> value.v[sel.start + (k - 1) * sel.step + 1]]]

\* C19: a slice selects the elements at start, start + step, ... below
\* min(end, n) in ascending order, with 0 for an omitted start and n for an
\* omitted end; [:2] selects what [0:2] selects.
C19_Slice ==
    \A sel \in SliceSelectors :
        (Evaluated({sel.expression}) /\ AllPairs)
            => ResultsAre(SliceOf(pathDoc, <<"$">>, sel))

\* The selectors of the model with a negative index, applied to the root.
NegativeSelectors ==
    {<<"$", "[", "-", "1", ":", "]">>, <<"$", "[", "0", ",", "-", "1", "]">>}

\* C20: a slice or a union of indices with a negative index fails under
\* strict (no result set) and otherwise yields no result from the node it is
\* applied to.
C20_NegativeIndex ==
    Evaluated(NegativeSelectors)
        => IF pathCall.options.strict THEN pathRes = NULL
           ELSE pathRes /= NULL /\ pathRes.count = 0

\* A key of the shape [A-Za-z_][A-Za-z0-9_]*.
IsIdentifier(k) ==
    /\ k /= <<>>
    /\ isalpha(k[1]) \/ k[1] = "_"
    /\ \A i \in 2..Len(k) : isalnum(k[i]) \/ k[i] = "_"

\* The step into the member k: .k for an identifier, ['k'] for any other key.
MemberStep(k) ==
    IF IsIdentifier(k) THEN <<".">> \o k ELSE <<"[", "'">> \o k \o <<"'", "]">>

\* The step into the item i: [i].
ItemStep(i) == <<"[">> \o NatDigits(i) \o <<"]">>

\* Every node in the tree of `value` with its path written by these rules,
\* `path` being the path of `value`.
RECURSIVE Written(_, _)
Written(value, path) ==
    {[path |-> path, value |-> value]}
    \cup (IF value.type = "JSON_OBJECT"
          THEN UNION {Written(value.v[i].value, path \o MemberStep(value.v[i].key)) :
                        i \in DOMAIN value.v}
          ELSE IF value.type = "JSON_ARRAY"
          THEN UNION {Written(value.v[i], path \o ItemStep(i - 1)) : i \in DOMAIN value.v}
          ELSE {})

\* C21: every path an evaluation returns is the path of a node of the
\* document written with .k for a key of identifier shape, ['k'] for any
\* other key, [i] for an index and $ for the root, and the value returned
\* with it is the value of that node.
C21_PathsWritten ==
    (pathStage = "evaluated" /\ pathRes /= NULL
     /\ pathRes.mode = "JSONPATH_MODE_PAIRS")
        => \A i \in DOMAIN pathRes.paths :
              [path |-> pathRes.paths[i], value |-> pathRes.values[i]]
                  \in Written(pathDoc, <<"$">>)

\* The result set the expression of the call yields with no limit.
Unlimited ==
    evaluate_jsonpath(pathDoc, pathCall.expression,
                      [pathCall.options EXCEPT !.limit = 0]).res

\* The first n entries of a result set, in the same order.
FirstOf(res, n) ==
    IF res = NULL THEN NULL
    ELSE [mode |-> res.mode, count |-> Min(res.count, n),
          paths |-> SubSeq(res.paths, 1, Min(Len(res.paths), n)),
          values |-> SubSeq(res.values, 1, Min(Len(res.values), n))]

\* C22: with a limit above 0 the result set has at most limit entries and is
\* the first min(count, limit) entries, in order, of the result set the same
\* expression yields with no limit; a limit of 0 or less returns them all.
C22_Limit ==
    pathStage = "evaluated"
        => /\ pathCall.options.limit > 0
                => /\ pathRes /= NULL => pathRes.count <= pathCall.options.limit
                   /\ pathRes = FirstOf(Unlimited, pathCall.options.limit)
           /\ pathCall.options.limit <= 0 => pathRes = Unlimited

\* What @.name stands for on a node: the member, null where there is none.
AtMember(value, name) ==
    IF value.type = "JSON_OBJECT" /\ name \in KeysOf(value)
    THEN get_object_item(value, name) ELSE JNull

\* A value is truthy unless it is null or false.
Truthy(value) ==
    IF value.type = "JSON_BOOL" THEN value.v ELSE value.type /= "JSON_NULL"

\* What a filter keeps of the node `value` at `path`, Keeps being the
\* verdict of the expression on a node: the elements of an array, in index
\* order, or the node itself when it is not an array.
Filtered(value, path, Keeps(_)) ==
    IF value.type = "JSON_ARRAY"
    THEN SelectSeq([i \in DOMAIN value.v |->
                      [path |-> path \o ItemStep(i - 1), value |-> value.v[i]]],
                   LAMBDA pair : Keeps(pair.value))
    ELSE IF Keeps(value) THEN <<[path |-> path, value |-> value]>>
    ELSE <<>>

\* C23: ! binds tighter than the comparisons, these tighter than &&, and &&
\* tighter than ||: !@.a == @.b keeps the nodes where (!@.a) == @.b, and
\* x || y && z keeps those where x || (y && z).
C23_Precedence ==
    /\ (Evaluated({<<"$", "[", "?", "(", "!", "@", ".", "a", " ", "=", "=", " ",
                    "@", ".", "b", ")", "]">>}) /\ AllPairs)
          => ResultsAre(Filtered(pathDoc, <<"$">>, LAMBDA node :
                 cmp_values(JBool(~Truthy(AtMember(node, Key("a")))),
                            AtMember(node, Key("b")), <<"=", "=">>)))
    /\ (Evaluated({<<"$", "[", "?", "(", "@", ".", "a", " ", "=", "=", " ", "1",
                    " ", "|", "|", " ", "@", ".", "b", " ", "=", "=", " ", "t",
                    "r", "u", "e", " ", "&", "&", " ", "@", ".", "a", " ", "=",
                    "=", " ", "0", ")", "]">>}) /\ AllPairs)
          => ResultsAre(Filtered(pathDoc, <<"$">>, LAMBDA node :
                 \/ cmp_values(AtMember(node, Key("a")), JInt(1), <<"=", "=">>)
                 \/ /\ cmp_values(AtMember(node, Key("b")), JBool(TRUE), <<"=", "=">>)
                    /\ cmp_values(AtMember(node, Key("a")), JInt(0), <<"=", "=">>)))

\* The node has the member and its value is neither null nor false.
HasTruthy(node, name) ==
    /\ node.type = "JSON_OBJECT" /\ name \in KeysOf(node)
    /\ Truthy(get_object_item(node, name))

\* What the filter keeps of the working set of one node, by its expression.
Kept(expression, value, path) ==
    CASE expression = <<"$", "[", "?", "(", "@", ".", "a", " ", "=", "=", " ", "1", ")", "]">>
           -> Filtered(value, path, LAMBDA node :
                  cmp_values(AtMember(node, Key("a")), JInt(1), <<"=", "=">>))
      [] expression = <<"$", "[", "?", "(", "@", ".", "a", ")", "]">>
           -> Filtered(value, path, LAMBDA node : HasTruthy(node, Key("a")))
      [] expression = <<"$", "[", "?", "(", "@", ")", "]">>
           -> Filtered(value, path, LAMBDA node : Truthy(node))
      [] expression = <<"$", "[", "?", "(", "@", ".", "a", " ", "&", "&", " ", "@", ".", "b", ")", "]">>
           -> Filtered(value, path, LAMBDA node :
                  HasTruthy(node, Key("a")) /\ HasTruthy(node, Key("b")))

\* C25: [?(expr)] keeps of an array node the elements on which expr is
\* truthy, in index order and with the paths p[i], and keeps a node that is
\* not an array iff expr is truthy on it; a bare @-path is truthy iff the
\* member exists and is neither null nor false.
C25_Filter ==
    (Evaluated({<<"$", "[", "?", "(", "@", ".", "a", " ", "=", "=", " ", "1", ")", "]">>,
                <<"$", "[", "?", "(", "@", ".", "a", ")", "]">>,
                <<"$", "[", "?", "(", "@", ")", "]">>,
                <<"$", "[", "?", "(", "@", ".", "a", " ", "&", "&", " ", "@", ".", "b", ")", "]">>})
     /\ AllPairs)
        => ResultsAre(Kept(pathCall.expression, pathDoc, <<"$">>))

\* C30: when evaluate_jsonpath has returned, every value allocated while a
\* filter was evaluated (the parsed literals and the null that stands for a
\* missing @-path) has been freed exactly once: none is still allocated and
\* none has been freed a second time.
C30_FilterValuesFreed ==
    pathStage = "evaluated" => heap.leaked = 0

-----------------------------------------------------------------------------
(* jsonpath.c: the comparisons of a filter, on one element {"a": x, "b": y} *)

\* The operands compared: numbers, strings, booleans, null and containers.
CmpOperands ==
    {JInt(n) : n \in 0..MaxNumber}
    \cup {JString(<<"a">>), JString(<<"a", "b">>), JString(<<"b">>),
          JBool(TRUE), JBool(FALSE), JNull, JArray(<<>>), JObject(<<>>)}

CmpDocs ==
    {JArray(<<JObject(<<JsonKeyValue(Key("a"), x), JsonKeyValue(Key("b"), y)>>)>>) :
        x, y \in CmpOperands}

\* The right operands: the path @.b or a literal with its text.
CmpRights ==
    {[text |-> <<"@", ".", "b">>, is_path |-> TRUE, value |-> NULL]}
    \cup {[text |-> NatDigits(n), is_path |-> FALSE, value |-> JInt(n)] :
            n \in 0..MaxNumber}
    \cup {[text |-> <<"'", "a", "'">>, is_path |-> FALSE, value |-> JString(<<"a">>)],
          [text |-> <<"t", "r", "u", "e">>, is_path |-> FALSE, value |-> JBool(TRUE)],
          [text |-> <<"n", "u", "l", "l">>, is_path |-> FALSE, value |-> JNull]}

\* $[?(@.a op rhs)]
CmpExpression(op, rhs) ==
    <<"$", "[", "?", "(", "@", ".", "a", " ">> \o op \o <<" ">> \o rhs.text
    \o <<")", "]">>

CmpInit ==
    /\ pathDoc \in CmpDocs
    /\ pathCall = <<>>
    /\ pathRes = NULL
    /\ heap = NewHeap
    /\ pathStage = "loaded"
    /\ ObjIdle /\ SerIdle /\ KernelIdle /\ SaveIdle /\ NestIdle /\ CliIdle

\* res = evaluate_jsonpath(doc, "$[?(@.a op rhs)]", &options)
EvaluateComparison ==
    /\ pathStage = "loaded"
    /\ \E i \in DOMAIN CmpOps, rhs \in CmpRights, strict \in BOOLEAN :
       \E call \in {evaluate_jsonpath(pathDoc, CmpExpression(CmpOps[i], rhs),
                                      [mode |-> "JSONPATH_MODE_PAIRS", limit |-> 0,
                                       strict |-> strict])} :
        /\ pathCall' = [expression |-> CmpExpression(CmpOps[i], rhs),
                        options |-> [mode |-> "JSONPATH_MODE_PAIRS", limit |-> 0,
                                     strict |-> strict],
                        op |-> CmpOps[i], rhs |-> rhs]
        /\ heap' = call.h
        /\ pathRes' \in (IF call.h.uaf THEN {call.res, Undefined} ELSE {call.res})
        /\ pathStage' = "evaluated"
        /\ UNCHANGED <<pathDoc, objVars, serVars, kernelVars, saveVars,
                       nestVars, cliVars>>

CmpNext == EvaluateComparison \/ FreeJsonpathResults \/ FreeDocument

SpecCmp == CmpInit /\ [][CmpNext]_vars

\* The operands of the comparison evaluated on the element.
Lhs == AtMember(pathDoc.v[1], Key("a"))

Rhs == IF pathCall.rhs.is_path THEN AtMember(pathDoc.v[1], Key("b"))
       ELSE pathCall.rhs.value

\* The integer a number of the model stands for.
IntOf(number) == number.v.m * Pow10(number.v.e)

\* s comes before t in the order of the bytes.
LexBefore(s, t) ==
    \E k \in 1..Len(t) :
        /\ Len(s) >= k - 1
        /\ \A j \in 1..(k - 1) : s[j] = t[j]
        /\ Len(s) = k - 1 \/ Ord(s[k]) < Ord(t[k])

\* The verdict of an operator on two operands of which the first is before
\* the second (before) or equal to it (same).
Verdict(op, before, same) ==
    CASE op = <<"=", "=">> -> same
      [] op = <<"!", "=">> -> ~same
      [] op = <<"<">>      -> before
      [] op = <<"<", "=">> -> before \/ same
      [] op = <<">">>      -> ~before /\ ~same
      [] op = <<">", "=">> -> ~before

\* The comparisons the rule speaks of: all but those of two arrays or of two
\* objects.
Comparable(a, b) ==
    a.type /= b.type \/ a.type \in {"JSON_NUMBER", "JSON_STRING", "JSON_BOOL", "JSON_NULL"}

\* The truth of a comparison by the rule.
Compares(a, b, op) ==
    IF a.type = "JSON_NULL" \/ b.type = "JSON_NULL"
    THEN op \in {<<"=", "=">>, <<"!", "=">>} /\ Verdict(op, FALSE, a.type = b.type)
    ELSE IF a.type /= b.type THEN FALSE
    ELSE IF a.type = "JSON_NUMBER"
    THEN Verdict(op, IntOf(a) < IntOf(b), IntOf(a) = IntOf(b))
    ELSE IF a.type = "JSON_STRING"
    THEN Verdict(op, LexBefore(a.v, b.v), a.v = b.v)
    ELSE Verdict(op, ~a.v /\ b.v, a.v = b.v)

\* C24: a comparison of two operands of different kinds, neither null, is
\* false for every operator; two numbers compare numerically, two strings by
\* their bytes, two booleans by value; with a null operand == holds when
\* both are null, != when one is not, and the ordering operators are false.
\* The filter keeps the element exactly when the comparison is true.
C24_Comparisons ==
    (pathStage = "evaluated" /\ Comparable(Lhs, Rhs))
        => /\ pathRes /= NULL
           /\ pathRes.count = (IF Compares(Lhs, Rhs, pathCall.op) THEN 1 ELSE 0)

\* A number was compared with a string by !=, and the element was dropped.
C24_Witness ==
    /\ pathStage = "evaluated"
    /\ pathCall.op = <<"!", "=">>
    /\ Lhs.type = "JSON_NUMBER" /\ Rhs.type = "JSON_STRING"
    /\ pathRes /= NULL /\ pathRes.count = 0

-----------------------------------------------------------------------------
(* json_parse.c: parse_json_string on texts with a structural mismatch and  *)
(* on complete values followed by other characters                         *)

\* The complete values.
ParseValues ==
    {JInt(1), JInt(-2), JString(<<"a">>), JBool(TRUE), JBool(FALSE), JNull,
     JArray(<<>>), JArray(<<JInt(1)>>), JObject(<<>>),
     JObject(<<JsonKeyValue(Key("a"), JInt(1))>>)}

\* The text of a complete value.
TextOf(value) == json_to_string(value, FALSE)

\* The texts with a structural mismatch made of the texts t and u of two
\* complete values, by the kind of the mismatch.
Mismatched(kind, t, u) ==
    CASE kind = "colon"   -> <<"{", "\"", "k", "\"", " ">> \o t \o <<"}">>
      [] kind = "comma"   -> <<"[">> \o t \o <<" ">> \o u \o <<"]">>
      [] kind = "adjacent" -> <<"[">> \o t \o u \o <<"]">>
      [] kind = "member comma" ->
             <<"{", "\"", "k", "\"", ":">> \o t \o <<" ", "\"", "l", "\"", ":">>
             \o u \o <<"}">>
      [] kind = "bracket" -> <<"[">> \o t \o <<",">> \o u
      [] kind = "brace"   -> <<"{", "\"", "k", "\"", ":">> \o t
      [] kind = "string"  -> <<"[">> \o t \o <<",", "\"", "k", "]">>
      [] kind = "keyword" -> <<"[">> \o t \o <<",", "t", "r", "u", "]">>
      [] kind = "null keyword" -> <<"[", "n", "u", "l", ",">> \o t \o <<"]">>

MismatchKinds ==
    {"colon", "comma", "adjacent", "member comma", "bracket", "brace", "string",
     "keyword", "null keyword"}

\* Two values written one after the other with no comma are a mismatch
\* unless they read as one value: a number followed by a digit.
Apart(t, u) == ~(isdigit(t[Len(t)]) /\ isdigit(u[1]))

\* The characters put after a complete value; none extends a number to
\* another number.
Trailings ==
    {<<" ">>, <<"x">>, <<" ", "x">>, <<"]">>, <<"}">>, <<",">>, <<":">>,
     <<"\"">>, <<" ", "1">>, <<"-">>, <<"\n", "{", "}">>}

ParseInit ==
    /\ doc \in ParseValues
    /\ twin \in ParseValues
    /\ fileText = <<>> /\ outText = <<>> /\ strText = <<>> /\ reparsed = <<>>
    /\ ObjIdle /\ KernelIdle /\ SaveIdle /\ PathIdle /\ NestIdle /\ CliIdle

\* parse_json_string on a text with a structural mismatch, made of the texts
\* of doc and of twin
ParseMismatched ==
    /\ reparsed = <<>>
    /\ \E kind \in MismatchKinds :
        /\ kind = "adjacent" => Apart(TextOf(doc), TextOf(twin))
        /\ strText' = <<Mismatched(kind, TextOf(doc), TextOf(twin))>>
        /\ reparsed' = [from |-> kind, value |-> parse_json_string(strText'[1])]
        /\ UNCHANGED <<doc, twin, fileText, outText, objVars, kernelVars,
                       saveVars, pathVars, nestVars, cliVars>>

\* parse_json_string on the text of doc followed by other characters
ParseTrailing ==
    /\ reparsed = <<>>
    /\ \E trailing \in Trailings :
        /\ strText' = <<TextOf(doc) \o trailing>>
        /\ reparsed' = [from |-> "trailing", value |-> parse_json_string(strText'[1])]
        /\ UNCHANGED <<doc, twin, fileText, outText, objVars, kernelVars,
                       saveVars, pathVars, nestVars, cliVars>>

ParseNext == ParseMismatched \/ ParseTrailing

SpecParse == ParseInit /\ [][ParseNext]_vars

\* C27: parse_json_string returns absent for every text with a structural
\* mismatch (a missing ':', a missing ',' or closing bracket or brace, an
\* unterminated string, a misspelt keyword) and returns the value for every
\* complete value followed by other characters.
C27_ParseErrors ==
    reparsed /= <<>>
        => IF reparsed.from = "trailing" THEN reparsed.value = doc
           ELSE reparsed.value = NULL

-----------------------------------------------------------------------------
(* json_serialize.c: the buffer json_to_string allocates from               *)
(* calculate_json_size and the bytes serialize_json_to_buffer writes to it  *)

\* The overflow guard before each addition: the addend fits.
Fits(size, n) == ~(n < 0 \/ size > IntMax - n)

RECURSIVE calculate_json_size(_, _, _)
RECURSIVE SizeItems(_, _, _, _, _, _)
RECURSIVE SizeMembers(_, _, _, _, _, _)

\* One turn of the element loop of calculate_json_size; done is FALSE when
\* the function returned from inside the loop.
SizeItem(item, first, pretty, level, size) ==
    With(size + (IF first THEN 0 ELSE IF pretty THEN 2 ELSE 1), LAMBDA s1 :
    IF pretty /\ ~Fits(s1, 2 + level * 2) THEN [size |-> s1, done |-> FALSE]
    ELSE With(s1 + (IF pretty THEN 2 + level * 2 ELSE 0), LAMBDA s2 :
         With(calculate_json_size(item, pretty, level + 1), LAMBDA item_size :
              IF ~Fits(s2, item_size) THEN [size |-> s2, done |-> FALSE]
              ELSE [size |-> s2 + item_size, done |-> TRUE])))

\* The element loop over items[lo..hi], entered with size.
SizeItems(items, lo, hi, pretty, level, size) ==
    IF lo > hi THEN [size |-> size, done |-> TRUE]
    ELSE IF lo = hi THEN SizeItem(items[lo], lo = 1, pretty, level, size)
    ELSE With(SizeItems(items, lo, (lo + hi) \div 2, pretty, level, size),
              LAMBDA left :
              IF ~left.done THEN left
              ELSE SizeItems(items, (lo + hi) \div 2 + 1, hi, pretty, level,
                             left.size))

\* One turn of the member loop of calculate_json_size.
SizeMember(kv, first, pretty, level, size) ==
    With(size + (IF first THEN 0 ELSE IF pretty THEN 2 ELSE 1), LAMBDA s1 :
    IF pretty /\ ~Fits(s1, 2 + level * 2) THEN [size |-> s1, done |-> FALSE]
    ELSE With(s1 + (IF pretty THEN 2 + level * 2 ELSE 0), LAMBDA s2 :
         With(Len(escape_string(kv.key)), LAMBDA escaped_len :
         IF escaped_len > IntMax - 2 \/ s2 > IntMax - (escaped_len + 2)
         THEN [size |-> s2, done |-> FALSE]
         ELSE With(s2 + escaped_len + 2 + 1 + (IF pretty THEN 1 ELSE 0),
                   LAMBDA s3 :
              With(calculate_json_size(kv.value, pretty, level + 1),
                   LAMBDA value_size :
                   IF ~Fits(s3, value_size) THEN [size |-> s3, done |-> FALSE]
                   ELSE [size |-> s3 + value_size, done |-> TRUE])))))

\* The member loop over kvs[lo..hi], entered with size.
SizeMembers(kvs, lo, hi, pretty, level, size) ==
    IF lo > hi THEN [size |-> size, done |-> TRUE]
    ELSE IF lo = hi THEN SizeMember(kvs[lo], lo = 1, pretty, level, size)
    ELSE With(SizeMembers(kvs, lo, (lo + hi) \div 2, pretty, level, size),
              LAMBDA left :
              IF ~left.done THEN left
              ELSE SizeMembers(kvs, (lo + hi) \div 2 + 1, hi, pretty, level,
                               left.size))

\* The closing line of a non-empty container in pretty mode.
SizeClosing(loop, pretty, level, head) ==
    IF ~loop.done THEN loop.size
    ELSE IF pretty /\ head /= <<>> /\ Fits(loop.size, 1 + level * 2)
         THEN loop.size + 1 + level * 2
         ELSE loop.size

calculate_json_size(json, pretty, level) ==
    IF json = NULL \/ level > 1000 THEN 4
    ELSE CASE json.type = "JSON_NULL"   -> 4
           [] json.type = "JSON_BOOL"   -> IF json.v THEN 4 ELSE 5
           [] json.type = "JSON_NUMBER" -> Len(FormatG(json.v))
           [] json.type = "JSON_STRING" -> Len(escape_string(json.v)) + 2
           [] json.type = "JSON_ARRAY"  ->
                  SizeClosing(SizeItems(json.v, 1, Len(json.v), pretty, level, 2),
                              pretty, level, json.v)
           [] json.type = "JSON_OBJECT" ->
                  SizeClosing(SizeMembers(json.v, 1, Len(json.v), pretty, level, 2),
                              pretty, level, json.v)

\* The bytes json_to_string allocates beyond the calculated size.
Padding == 16

\* The most elements or members of one container.
MaxItems == Padding + 1

SizeLeaves ==
    {JInt(1), JString(<<"a", "\"">>), JArray(<<>>), JArray(<<JInt(1)>>),
     JObject(<<JsonKeyValue(Key("a"), JInt(1))>>)}

\* Arrays and objects of up to MaxItems copies of one leaf.
SizeDocs ==
    SizeLeaves
    \cup {JArray([i \in 1..n |-> leaf]) : n \in 0..MaxItems, leaf \in SizeLeaves}
    \cup {JObject([i \in 1..n |-> JsonKeyValue(NatDigits(i), leaf)]) :
             n \in 0..MaxItems, leaf \in SizeLeaves}

SizeInit ==
    /\ doc \in SizeDocs
    /\ twin = NULL
    /\ fileText = <<>> /\ outText = <<>> /\ strText = <<>> /\ reparsed = <<>>
    /\ ObjIdle /\ KernelIdle /\ SaveIdle /\ PathIdle /\ NestIdle /\ CliIdle

\* json_to_string: the buffer of size + Padding bytes, the bytes written to
\* it with the terminator, and the string returned.  Bytes written past the
\* buffer leave the outcome undefined: the string comes back whole or the
\* call does not return one.
SerializeToBuffer ==
    /\ outText = <<>>
    /\ \E pretty \in BOOLEAN :
        /\ outText' = [pretty |-> pretty,
                       allocated |-> calculate_json_size(doc, pretty, 0) + Padding,
                       written |-> Len(serialize_json_to_buffer(doc, pretty, 0)) + 1]
        /\ strText' \in {<<json_to_string(doc, pretty)>>}
                        \cup (IF outText'.written > outText'.allocated
                              THEN {<<>>} ELSE {})
        /\ UNCHANGED <<doc, twin, fileText, reparsed, objVars, kernelVars,
                       saveVars, pathVars, nestVars, cliVars>>

SizeNext == SerializeToBuffer

SpecSize == SizeInit /\ [][SizeNext]_vars

\* C28: for every value and both settings of the pretty flag, the bytes
\* serialize_json_to_buffer writes, terminator included, are no more than
\* the bytes json_to_string allocated from calculate_json_size.
C28_BufferHolds ==
    outText /= <<>> => outText.written <= outText.allocated

-----------------------------------------------------------------------------
(* json_config_cli.c: main, the resolution of the config target and the    *)
(* get, print and set commands, over a file system of three paths          *)

\* The number of runs of the program in a behaviour.
MaxRuns == 1

\* An entry of the file system: nothing, a directory or a regular file with
\* its bytes; `readable` is what access(path, R_OK) and fopen(path, "r") go by.
NoEntry == [kind |-> "none", readable |-> FALSE, bytes |-> <<>>]

Directory == [kind |-> "dir", readable |-> TRUE, bytes |-> <<>>]

Regular(bytes, readable) == [kind |-> "reg", readable |-> readable, bytes |-> bytes]

\* The short name of the runs and the three paths it can resolve to; "c" is
\* the same file as "./c".
ShortName == <<"c">>

JsonExt == <<".", "j", "s", "o", "n">>

CliPaths == {ShortName, ShortName \o JsonExt, <<"/", "e", "t", "c", "/">> \o ShortName \o JsonExt}

\* The path without a leading "./": the name of the entry in `files`.
Canon(path) ==
    IF Len(path) > 2 /\ path[1] = "." /\ path[2] = "/" THEN SubSeq(path, 3, Len(path))
    ELSE path

\* The entry a path names.
Entry(fs, path) == IF Canon(path) \in DOMAIN fs THEN fs[Canon(path)] ELSE NoEntry

has_path_separator(s) == \E p \in DOMAIN s : s[p] = "/" \/ s[p] = "\\"

ends_with_json_ext(s) ==
    Len(s) >= 5 /\ strcmp(SubSeq(s, Len(s) - 4, Len(s)), JsonExt) = 0

is_regular_file_following_symlink(fs, path) == Entry(fs, path).kind = "reg"

is_directory_following_symlink(fs, path) == Entry(fs, path).kind = "dir"

path_exists(fs, path) == Entry(fs, path).kind /= "none"

path_readable(fs, path) == path_exists(fs, path) /\ Entry(fs, path).readable

\* The loop of resolve_config_target over the candidates, from candidate i.
RECURSIVE ResolveLoop(_, _, _)
ResolveLoop(fs, candidates, i) ==
    IF i > Len(candidates) THEN [rc |-> 2, out_path |-> <<>>]
    ELSE LET c == candidates[i] IN
         IF ~path_exists(fs, c) THEN ResolveLoop(fs, candidates, i + 1)
         ELSE IF is_directory_following_symlink(fs, c)
         THEN ResolveLoop(fs, candidates, i + 1)
         ELSE IF ~is_regular_file_following_symlink(fs, c)
         THEN ResolveLoop(fs, candidates, i + 1)
         ELSE IF ~path_readable(fs, c) THEN [rc |-> 13, out_path |-> <<>>]
         ELSE [rc |-> 0, out_path |-> c]

\* resolve_config_target: 0 and the resolved path, 2 (not found) or 13
\* (permission denied).
resolve_config_target(fs, config_target) ==
    IF has_path_separator(config_target) \/ ends_with_json_ext(config_target)
    THEN [rc |-> 0, out_path |-> config_target]
    ELSE ResolveLoop(fs, << <<".", "/">> \o config_target,
                            <<".", "/">> \o config_target \o JsonExt,
                            <<"/", "e", "t", "c", "/">> \o config_target \o JsonExt >>, 1)

\* parse_json_file(filepath): NULL when fopen fails; an empty object for an
\* empty file and for a text that does not parse.  fopen opens a directory,
\* and then the size ftell reports decides: zero gives the empty object, any
\* other size ends in a failing fread and NULL.
parse_json_file(fs, filepath, dir_size_zero) ==
    With(Entry(fs, filepath), LAMBDA file :
        IF file.kind = "none" \/ ~file.readable THEN NULL
        ELSE IF file.kind = "dir"
             THEN (IF dir_size_zero THEN create_json_value("JSON_OBJECT") ELSE NULL)
        ELSE IF file.bytes = <<>> THEN create_json_value("JSON_OBJECT")
        ELSE With(parse_json_string(file.bytes), LAMBDA json :
                IF json = NULL THEN create_json_value("JSON_OBJECT") ELSE json))

load_config(fs, filepath, dir_size_zero) == parse_json_file(fs, filepath, dir_size_zero)

\* handle_get_command: the exit status and the bytes printed.
handle_get_command(fs, config_file, key, dir_size_zero) ==
    With(load_config(fs, config_file, dir_size_zero), LAMBDA config :
        IF config = NULL THEN [rc |-> 1, out |-> <<>>, fs |-> fs]
        ELSE With(get_nested_item(config, key), LAMBDA value :
                IF value = NULL THEN [rc |-> 1, out |-> <<>>, fs |-> fs]
                ELSE [rc |-> 0, out |-> print_item(value), fs |-> fs]))

\* handle_print_command
handle_print_command(fs, config_file, dir_size_zero) ==
    With(load_config(fs, config_file, dir_size_zero), LAMBDA config :
        IF config = NULL THEN [rc |-> 1, out |-> <<>>, fs |-> fs]
        ELSE [rc |-> 0, out |-> print_item(config), fs |-> fs])

\* The end of handle_set_command: save_config renames its temporary file
\* over config_file, which fails over a directory.
SaveSet(fs, config_file, set, file) ==
    IF set.ret = 0 THEN [rc |-> 1, out |-> <<>>, fs |-> fs]
    ELSE With(save_config(IF file.kind = "reg" THEN File(file.bytes) ELSE ABSENT,
                          set.object,
                          IF file.kind = "dir" THEN "rename" ELSE "none", 0),
              LAMBDA save :
                IF save.ret = 0 THEN [rc |-> 1, out |-> <<>>, fs |-> fs]
                ELSE [rc |-> 0, out |-> <<>>,
                      fs |-> [fs EXCEPT ![Canon(config_file)] =
                                            Regular(save.filepath.bytes, TRUE)]])

\* handle_set_command: a config that does not load starts as an empty
\* object.
handle_set_command(fs, config_file, key, value_str, dir_size_zero) ==
    With(load_config(fs, config_file, dir_size_zero), LAMBDA loaded :
        With(set_nested_item(IF loaded = NULL THEN create_json_value("JSON_OBJECT")
                             ELSE loaded, key, value_str),
             LAMBDA set : SaveSet(fs, config_file, set, Entry(fs, config_file))))

\* What main returns: the exit status, the bytes printed and the file system
\* of a handler's run, with the path main handed to the handler.
Handled(cfg_for_handlers, run) ==
    [rc |-> run.rc, out |-> run.out, fs |-> run.fs,
     cfg_for_handlers |-> cfg_for_handlers]

\* main for "<config_target> get <key>", "<config_target> print" and
\* "<config_target> set <key> <value>".
main(fs, config_target, command, key, value_str, dir_size_zero) ==
    With(resolve_config_target(fs, config_target), LAMBDA resolved :
        IF command \in {"get", "print"}
        THEN IF resolved.rc /= 0
             THEN [rc |-> resolved.rc, out |-> <<>>, fs |-> fs,
                   cfg_for_handlers |-> <<>>]
             ELSE IF command = "get"
             THEN Handled(resolved.out_path,
                          handle_get_command(fs, resolved.out_path, key, dir_size_zero))
             ELSE Handled(resolved.out_path,
                          handle_print_command(fs, resolved.out_path, dir_size_zero))
        ELSE \* "set": the assignment of line 560 follows the one of line 557
             IF ~(has_path_separator(config_target) \/ ends_with_json_ext(config_target))
                /\ resolved.rc /= 0
             THEN [rc |-> resolved.rc, out |-> <<>>, fs |-> fs,
                   cfg_for_handlers |-> <<>>]
             ELSE Handled(config_target,
                          handle_set_command(fs, config_target, key, value_str,
                                             dir_size_zero)))

\* The texts of the files of the model.
CliTexts == {write_json_to_file(JObject(<<JsonKeyValue(Key("a"), JInt(1))>>), 0) \o <<"\n">>}

CliEntries ==
    {NoEntry, Directory} \cup {Regular(t, r) : t \in CliTexts, r \in BOOLEAN}

\* The config targets: the short name, and explicit paths by separator and
\* by suffix.
CliTargets == {ShortName, <<".", "/">> \o ShortName, ShortName \o JsonExt}

CliKeys == {<<"a">>, <<"b">>}

CliInit ==
    /\ files \in [CliPaths -> CliEntries]
    /\ cliRun = <<>>
    /\ ObjIdle /\ SerIdle /\ KernelIdle /\ SaveIdle /\ PathIdle /\ NestIdle

\* The number of runs so far.
Runs == IF cliRun = <<>> THEN 0 ELSE cliRun.count

\* The record of a run: the arguments, what main returned and the file
\* system the run started from.
Ran(config_target, command, key, value_str, run) ==
    [config_target |-> config_target, command |-> command, key |-> key,
     value_str |-> value_str, rc |-> run.rc, out |-> run.out,
     cfg_for_handlers |-> run.cfg_for_handlers, before |-> files,
     count |-> Runs + 1]

\* jct <config_target> get <key>
CliGet ==
    /\ Runs < MaxRuns
    /\ \E config_target \in CliTargets, key \in CliKeys, dir_size_zero \in BOOLEAN :
       \E run \in {main(files, config_target, "get", key, <<>>, dir_size_zero)} :
        /\ files' = run.fs
        /\ cliRun' = Ran(config_target, "get", key, <<>>, run)
    /\ UNCHANGED <<objVars, serVars, kernelVars, saveVars, pathVars, nestVars>>

\* jct <config_target> print
CliPrint ==
    /\ Runs < MaxRuns
    /\ \E config_target \in CliTargets, dir_size_zero \in BOOLEAN :
       \E run \in {main(files, config_target, "print", <<>>, <<>>, dir_size_zero)} :
        /\ files' = run.fs
        /\ cliRun' = Ran(config_target, "print", <<>>, <<>>, run)
    /\ UNCHANGED <<objVars, serVars, kernelVars, saveVars, pathVars, nestVars>>

\* jct <config_target> set <key> <value>
CliSet ==
    /\ Runs < MaxRuns
    /\ \E config_target \in CliTargets, key \in CliKeys, dir_size_zero \in BOOLEAN :
       \E run \in {main(files, config_target, "set", key, <<"7">>, dir_size_zero)} :
        /\ files' = run.fs
        /\ cliRun' = Ran(config_target, "set", key, <<"7">>, run)
    /\ UNCHANGED <<objVars, serVars, kernelVars, saveVars, pathVars, nestVars>>

CliNext == CliGet \/ CliPrint \/ CliSet

SpecCli == CliInit /\ [][CliNext]_vars

\* A run on a short name that short-name resolution resolves to a file.
ShortResolved ==
    /\ cliRun /= <<>>
    /\ cliRun.config_target = ShortName
    /\ resolve_config_target(cliRun.before, cliRun.config_target).rc = 0

\* The file that the short name of the run resolves to.
ResolvedFile == Canon(resolve_config_target(cliRun.before, cliRun.config_target).out_path)

\* The file of the run after a set of the key on what it held before.
SetInPlace(path) ==
    Regular(write_json_to_file(
                set_nested_item(parse_json_string(cliRun.before[path].bytes),
                                cliRun.key, cliRun.value_str).object, 0) \o <<"\n">>,
            TRUE)

\* C16: a set on a short name that resolves to an existing readable file
\* loads, modifies and saves that resolved file: the handler works on the
\* resolved path, the resolved file holds the old content with the key set,
\* and no other file changes.
C16_SetResolvedFile ==
    (ShortResolved /\ cliRun.command = "set")
        => /\ Canon(cliRun.cfg_for_handlers) = ResolvedFile
           /\ cliRun.rc = 0
           /\ files[ResolvedFile] = SetInPlace(ResolvedFile)
           /\ \A path \in CliPaths \ {ResolvedFile} : files[path] = cliRun.before[path]

====
